---- MODULE Spec2Model ----
(***************************************************************************)
(* Model of the docxgen template core (normiridium/docxgen).               *)
(*                                                                         *)
(* Text is modelled as a sequence of lexemes.  A lexeme is a short string  *)
(* the regular expressions of the source never split: a single delimiter   *)
(* character ("{", "}", "|", "%", "[", "]", "$", " "), a run of name       *)
(* characters ("a", "fio", "12"), or a markup token ("<w:tr>").  The text  *)
(* a sequence stands for is the concatenation of its lexemes.              *)
(*                                                                         *)
(* Go values of type `any` are tagged records [k, v]:                      *)
(*   k = "str"   v = text                  (a scalar; fmt.Sprint = v)      *)
(*   k = "map"   v = function key -> value (map[string]any)                *)
(*   k = "list"  v = sequence of values    ([]any)                         *)
(*   k = "smap"  v = function key -> text  (map[string]string)             *)
(*   k = "slist" v = sequence of texts     ([]string)                      *)
(***************************************************************************)
EXTENDS Integers, Sequences, FiniteSets, TLC

\* ------------------------------------------------------------------------
\* Bounds of the model
\* ------------------------------------------------------------------------
MaxRows == 3

MaxItems == 2

\* rows of a table in the specifications of item shapes and of rendering
MaxAuxRows == 2

\* most lexemes of a body given to RepairTags
MaxBodyLen == 4

\* most fragments of a body given to RepairTags that is built of fragments
MaxChunks == 2

\* most pieces (paragraphs, stray markup) of a body given to the paragraph
\* functions
MaxPieces == 2

\* the iterations of a marker loop that are followed
MaxIter == 3

\* nodes in the run that ProcessTrimTags is applied to
MaxNodes == 3

\* arguments of the marker that TransformTemplate is applied to
MaxArgs == 2

\* most media files that one document adds
MaxMedia == 2

\* ------------------------------------------------------------------------
\* Lexeme classes (the character classes of the regular expressions)
\* ------------------------------------------------------------------------
\* The backquote character U+0060, which a TLA+ string cannot hold
Backtick == "^"

\* [ \t]
Blank == {" ", "\t"}

\* \s and strings.TrimSpace
Space == {" ", "\t", "\n"}

\* \d+
DigitLex == {"0", "1", "2", "3", "4"}

\* letters/digits/underscore: what regexp.expand accepts in $name
WordLex == DigitLex \cup {"a", "b", "c", "d", "x", "z", "m", "s", "T", "A", "B"}

\* [A-Za-z0-9_.]+
NameLex == WordLex \cup {"."}

\* Concatenation of the lexemes of s into one string
RECURSIVE Flat(_)
Flat(s) == IF s = <<>> THEN "" ELSE Head(s) \o Flat(Tail(s))

\* Concatenation of a sequence of texts (strings.Join(rows, ""))
RECURSIVE Join(_)
Join(ss) == IF ss = <<>> THEN <<>> ELSE Head(ss) \o Join(Tail(ss))

\* First position j >= i with s[j] outside class C (Len(s)+1 when none)
RECURSIVE SkipWhile(_, _, _)
SkipWhile(s, i, C) ==
  IF i <= Len(s) /\ s[i] \in C THEN SkipWhile(s, i + 1, C) ELSE i

\* First position j >= i with s[j] = c (Len(s)+1 when none)
RECURSIVE FindLex(_, _, _)
FindLex(s, i, c) ==
  IF i <= Len(s) /\ s[i] # c THEN FindLex(s, i + 1, c) ELSE i

\* First position j >= i with s[j] in class C (Len(s)+1 when none)
RECURSIVE FindIn(_, _, _)
FindIn(s, i, C) ==
  IF i <= Len(s) /\ s[i] \notin C THEN FindIn(s, i + 1, C) ELSE i

\* strings.TrimSpace
RECURSIVE TrimLeft(_)
TrimLeft(s) == IF s # <<>> /\ Head(s) \in Space THEN TrimLeft(Tail(s)) ELSE s

RECURSIVE TrimRight(_)
TrimRight(s) ==
  IF s # <<>> /\ s[Len(s)] \in Space THEN TrimRight(SubSeq(s, 1, Len(s) - 1)) ELSE s

TrimSpace(s) == TrimRight(TrimLeft(s))

\* ------------------------------------------------------------------------
\* Regular expressions: a matcher returns the position after the match,
\* or 0 when the expression does not match at position i.
\* ------------------------------------------------------------------------
NoMatch == [end |-> 0, name |-> "", a |-> <<>>, b |-> <<>>]

\* reBraceName  \{[ \t]*([A-Za-z0-9_.]+)[ \t]*[|}]
MatchBraceName(s, i) ==
  IF i > Len(s) \/ s[i] # "{" THEN NoMatch
  ELSE LET j == SkipWhile(s, i + 1, Blank)
           k == SkipWhile(s, j, NameLex)
           l == SkipWhile(s, k, Blank)
       IN IF k > j /\ l <= Len(s) /\ s[l] \in {"|", "}"}
          THEN [end |-> l + 1, name |-> Flat(SubSeq(s, j, k - 1)), a |-> <<>>, b |-> <<>>]
          ELSE NoMatch

\* rePerc  %\[\s*(\d+)\s*]s
MatchPerc(s, i) ==
  IF i + 1 > Len(s) \/ s[i] # "%" \/ s[i + 1] # "[" THEN NoMatch
  ELSE LET j == SkipWhile(s, i + 2, Space)
           k == SkipWhile(s, j, DigitLex)
           l == SkipWhile(s, k, Space)
       IN IF k > j /\ l + 1 <= Len(s) /\ s[l] = "]" /\ s[l + 1] = "s"
          THEN [end |-> l + 2, name |-> Flat(SubSeq(s, j, k - 1)), a |-> <<>>, b |-> <<>>]
          ELSE NoMatch

\* reNameMod  \{[ \t]*([A-Za-z0-9_.]+)[ \t]*\|([^}]*)}
MatchNameMod(s, i) ==
  IF i > Len(s) \/ s[i] # "{" THEN NoMatch
  ELSE LET j == SkipWhile(s, i + 1, Blank)
           k == SkipWhile(s, j, NameLex)
           l == SkipWhile(s, k, Blank)
           e == FindLex(s, l + 1, "}")
       IN IF k > j /\ l <= Len(s) /\ s[l] = "|" /\ e <= Len(s)
          THEN [end |-> e + 1, name |-> Flat(SubSeq(s, j, k - 1)),
                a |-> <<>>, b |-> SubSeq(s, l + 1, e - 1)]
          ELSE NoMatch

\* reExact  \{[ \t]*  QuoteMeta(name)  [ \t]*\}
MatchExact(s, i, name) ==
  IF i > Len(s) \/ s[i] # "{" THEN NoMatch
  ELSE LET j == SkipWhile(s, i + 1, Blank)
           k == SkipWhile(s, j, NameLex)
           l == SkipWhile(s, k, Blank)
       IN IF k > j /\ Flat(SubSeq(s, j, k - 1)) = name /\ l <= Len(s) /\ s[l] = "}"
          THEN [end |-> l + 1, name |-> name, a |-> SubSeq(s, i, l), b |-> <<>>]
          ELSE NoMatch

\* reBacktickMod: brace, blanks, a backtick span without backticks, blanks,
\* a pipe, any run without a closing brace, the closing brace
MatchBacktickMod(s, i) ==
  IF i > Len(s) \/ s[i] # "{" THEN NoMatch
  ELSE LET j == SkipWhile(s, i + 1, Blank)
           k == FindLex(s, j + 1, Backtick)
           l == SkipWhile(s, k + 1, Blank)
           e == FindLex(s, l + 1, "}")
       IN IF j <= Len(s) /\ s[j] = Backtick /\ k <= Len(s) /\ l <= Len(s) /\ s[l] = "|"
             /\ e <= Len(s)
          THEN [end |-> e + 1, name |-> "",
                a |-> SubSeq(s, j + 1, k - 1), b |-> SubSeq(s, l + 1, e - 1)]
          ELSE NoMatch

\* ------------------------------------------------------------------------
\* Values
\* ------------------------------------------------------------------------
VStr(t) == [k |-> "str", v |-> t]

VMap(f) == [k |-> "map", v |-> f]

VList(l) == [k |-> "list", v |-> l]

VSMap(f) == [k |-> "smap", v |-> f]

VSList(l) == [k |-> "slist", v |-> l]

\* the element-wise copy of a map[string]string into a map[string]any
ToAnyMap(f) == [n \in DOMAIN f |-> VStr(f[n])]

\* the element-wise copy of a []string into a []any
ToAnyList(l) == [n \in DOMAIN l |-> VStr(l[n])]

\* a nil map[string]any: every lookup misses
NilMap == [n \in {} |-> VStr(<<>>)]

\* the order in which fmt prints the keys of a map (sorted)
KeyOrder == <<"a", "b", "c", "d", "g", "h", "x", "z">>

\* fmt.Sprint: a string prints as itself, a list as [e1 e2], a map as
\* map[k1:v1 k2:v2] with sorted keys
RECURSIVE Sprint(_)
RECURSIVE SprintList(_)
RECURSIVE SprintMap(_, _, _)
Sprint(val) ==
  CASE val.k = "str" -> val.v
    [] val.k = "list" -> <<"[">> \o SprintList(val.v) \o <<"]">>
    [] val.k = "slist" -> <<"[">> \o SprintList(ToAnyList(val.v)) \o <<"]">>
    [] val.k = "smap" -> <<"map", "[">> \o SprintMap(ToAnyMap(val.v), 1, TRUE) \o <<"]">>
    [] OTHER -> <<"map", "[">> \o SprintMap(val.v, 1, TRUE) \o <<"]">>

SprintList(l) ==
  IF l = <<>> THEN <<>>
  ELSE Sprint(Head(l)) \o (IF Len(l) > 1 THEN <<" ">> ELSE <<>>) \o SprintList(Tail(l))

SprintMap(f, i, first) ==
  IF i > Len(KeyOrder) THEN <<>>
  ELSE IF KeyOrder[i] \in DOMAIN f
       THEN (IF first THEN <<>> ELSE <<" ">>) \o <<KeyOrder[i], ":">>
            \o Sprint(f[KeyOrder[i]]) \o SprintMap(f, i + 1, FALSE)
       ELSE SprintMap(f, i + 1, first)

\* strconv.Atoi of a run of digit lexemes
RECURSIVE AtoiFrom(_, _)
AtoiFrom(ds, acc) ==
  IF ds = <<>> THEN acc
  ELSE AtoiFrom(Tail(ds),
                acc * 10 + (CHOOSE n \in 0..9 : <<"0", "1", "2", "3", "4", "5", "6", "7", "8", "9">>[n + 1] = Head(ds)))

Atoi(ds) == AtoiFrom(ds, 0)

\* ------------------------------------------------------------------------
\* Template meta
\* ------------------------------------------------------------------------
\* reBraceName.FindAllStringSubmatch: the names, left to right
RECURSIVE FindNames(_, _)
FindNames(s, i) ==
  IF i > Len(s) THEN <<>>
  ELSE LET m == MatchBraceName(s, i)
       IN IF m.end > 0 THEN <<m.name>> \o FindNames(s, m.end)
          ELSE FindNames(s, i + 1)

\* len(rePerc.FindAllStringSubmatch)
RECURSIVE CountPerc(_, _)
CountPerc(s, i) ==
  IF i > Len(s) THEN 0
  ELSE LET m == MatchPerc(s, i)
       IN IF m.end > 0 THEN 1 + CountPerc(s, m.end) ELSE CountPerc(s, i + 1)

parseTplMeta(rowXML) ==
  [names |-> FindNames(rowXML, 1), percentSeen |-> CountPerc(rowXML, 1)]

\* ------------------------------------------------------------------------
\* Rendering helpers
\* ------------------------------------------------------------------------
\* the digits matched by rePerc at a position where it matches
PercDigits(s, i) ==
  LET j == SkipWhile(s, i + 2, Space)
  IN SubSeq(s, j, SkipWhile(s, j, DigitLex) - 1)

\* PercValue with N used as the 0-based index
PercValueOffByOne(n, arr) ==
  IF n < 0 \/ n >= Len(arr) THEN <<>> ELSE Sprint(arr[n + 1])

\* the callback of replacePerc: the value at index N-1, or ""
PercValue(n, arr) ==
  IF n - 1 < 0 \/ n - 1 >= Len(arr) THEN <<>> ELSE Sprint(arr[n])

RECURSIVE replacePercFrom(_, _, _)
replacePercFrom(s, i, arr) ==
  IF i > Len(s) THEN <<>>
  ELSE LET m == MatchPerc(s, i)
       IN IF m.end > 0
          THEN PercValue(Atoi(PercDigits(s, i)), arr) \o replacePercFrom(s, m.end, arr)
          ELSE <<s[i]>> \o replacePercFrom(s, i + 1, arr)

replacePerc(s, arr) == replacePercFrom(s, 1, arr)

\* step 1 of renderPositional: a backtick literal piped to a modifier has its
\* placeholders resolved inside the literal
RECURSIVE ReplBacktickMod(_, _, _)
ReplBacktickMod(s, i, arr) ==
  IF i > Len(s) THEN <<>>
  ELSE LET m == MatchBacktickMod(s, i)
       IN IF m.end > 0
          THEN <<"{", " ", Backtick>> \o replacePerc(m.a, arr) \o <<Backtick, " ", "|", " ">>
               \o TrimSpace(m.b) \o <<" ", "}">> \o ReplBacktickMod(s, m.end, arr)
          ELSE <<s[i]>> \o ReplBacktickMod(s, i + 1, arr)

renderPositional(xmlTpl, arr) == replacePerc(ReplBacktickMod(xmlTpl, 1, arr), arr)

\* regexp.expand of a replacement template for an expression without
\* capture groups: $$ is a dollar, $0 and ${0} are the whole match, any other
\* $name or ${name} is empty, a malformed $ stays a dollar
RECURSIVE Expand(_, _)
Expand(tpl, whole) ==
  IF tpl = <<>> THEN <<>>
  ELSE IF Head(tpl) # "$" THEN <<Head(tpl)>> \o Expand(Tail(tpl), whole)
  ELSE LET rest == Tail(tpl)
           brace == rest # <<>> /\ Head(rest) = "{"
           str == IF brace THEN Tail(rest) ELSE rest
           k == SkipWhile(str, 1, WordLex)
           name == Flat(SubSeq(str, 1, k - 1))
           ok == k > 1 /\ (brace => (k <= Len(str) /\ str[k] = "}"))
           after == SubSeq(str, (IF brace THEN k + 1 ELSE k), Len(str))
       IN IF rest # <<>> /\ Head(rest) = "$" THEN <<"$">> \o Expand(Tail(rest), whole)
          ELSE IF ~ok THEN <<"$">> \o Expand(rest, whole)
          ELSE (IF name = "0" THEN whole ELSE <<>>) \o Expand(after, whole)

\* reExact.ReplaceAllString(s, repl)
RECURSIVE ReplaceAllExact(_, _, _, _)
ReplaceAllExact(s, i, name, repl) ==
  IF i > Len(s) THEN <<>>
  ELSE LET m == MatchExact(s, i, name)
       IN IF m.end > 0 THEN Expand(repl, m.a) \o ReplaceAllExact(s, m.end, name, repl)
          ELSE <<s[i]>> \o ReplaceAllExact(s, i + 1, name, repl)

\* step 1 of renderNamedWithUnion: piped markers
RECURSIVE ReplNameMod(_, _, _, _)
ReplNameMod(s, i, data, union) ==
  IF i > Len(s) THEN <<>>
  ELSE LET m == MatchNameMod(s, i)
           tail == <<Backtick, " ", "|", " ">> \o TrimSpace(m.b) \o <<" ", "}">>
       IN IF m.end > 0
          THEN (IF m.name \in DOMAIN data
                  THEN <<"{", " ", Backtick>> \o Sprint(data[m.name]) \o tail
                ELSE IF m.name \in union THEN <<"{", " ", Backtick>> \o tail
                ELSE SubSeq(s, i, m.end - 1))
               \o ReplNameMod(s, m.end, data, union)
          ELSE <<s[i]>> \o ReplNameMod(s, i + 1, data, union)

\* step 2 of renderNamedWithUnion: the loop over meta.names
RECURSIVE ReplPure(_, _, _, _)
ReplPure(out, names, data, union) ==
  IF names = <<>> THEN out
  ELSE LET name == Head(names)
       IN ReplPure(
            (IF name \in DOMAIN data THEN ReplaceAllExact(out, 1, name, Sprint(data[name]))
             ELSE IF name \in union THEN ReplaceAllExact(out, 1, name, <<>>)
             ELSE out),
            Tail(names), data, union)

renderNamedWithUnion(xmlTpl, meta, data, union) ==
  ReplPure(ReplNameMod(xmlTpl, 1, data, union), meta.names, data, union)

\* ------------------------------------------------------------------------
\* XML / DOCX utils
\* ------------------------------------------------------------------------
TableOpeningTag == "<w:tbl>"

TableEndingTag == "</w:tbl>"

TableRowOpeningTag == "<w:tr>"

TableRowClosingTag == "</w:tr>"

\* the lexemes that contain TableRowPartTag "w:tr>"
TableRowPartLex == {TableRowOpeningTag, TableRowClosingTag}

stripOuterTable(t) ==
  LET trim == TrimSpace(t)
  IN IF Len(trim) >= 2 /\ Head(trim) = TableOpeningTag /\ trim[Len(trim)] = TableEndingTag
     THEN SubSeq(trim, 2, Len(trim) - 1)
     ELSE trim

\* strings.Split(s, TableRowClosingTag)
RECURSIVE SplitRows(_, _)
SplitRows(s, cur) ==
  IF s = <<>> THEN <<cur>>
  ELSE IF Head(s) = TableRowClosingTag THEN <<cur>> \o SplitRows(Tail(s), <<>>)
  ELSE SplitRows(Tail(s), Append(cur, Head(s)))

\* the parts that hold a row opening tag, each with its closing tag restored
extractTableRows(tbl) ==
  LET parts == SplitRows(TrimSpace(tbl), <<>>)
      keep == SelectSeq(parts, LAMBDA q : \E n \in DOMAIN q : q[n] \in TableRowPartLex)
  IN [n \in DOMAIN keep |-> Append(keep[n], TableRowClosingTag)]

\* ------------------------------------------------------------------------
\* Data normalization
\* ------------------------------------------------------------------------
HasSliceValue(m) == \E n \in DOMAIN m : m[n].k \in {"list", "slist"}

\* normalizeItem without the two fallbacks for bare slices
normalizeItemNoBareSlice(val) ==
  LET other == [raw |-> val, groupKey |-> "", kind |-> "other",
                mapVal |-> NilMap, sliceVal |-> <<>>]
      gk == CHOOSE n \in DOMAIN val.v : TRUE
      labelled == val.k = "map" /\ Cardinality(DOMAIN val.v) = 1
                  /\ val.v[gk].k \in {"map", "smap", "list", "slist"}
  IN IF labelled
     THEN LET inner == val.v[gk]
          IN CASE inner.k = "map" ->
                    [other EXCEPT !.groupKey = gk, !.kind = "map", !.mapVal = inner.v]
               [] inner.k = "smap" ->
                    [other EXCEPT !.groupKey = gk, !.kind = "map", !.mapVal = ToAnyMap(inner.v)]
               [] inner.k = "list" ->
                    [other EXCEPT !.groupKey = gk, !.kind = "slice", !.sliceVal = inner.v]
               [] OTHER ->
                    [other EXCEPT !.groupKey = gk, !.kind = "slice", !.sliceVal = ToAnyList(inner.v)]
     ELSE IF val.k = "map"
          THEN IF HasSliceValue(val.v) THEN other
               ELSE [other EXCEPT !.kind = "map", !.mapVal = val.v]
     ELSE other

normalizeItem(val) ==
  LET other == [raw |-> val, groupKey |-> "", kind |-> "other",
                mapVal |-> NilMap, sliceVal |-> <<>>]
      gk == CHOOSE n \in DOMAIN val.v : TRUE
      labelled == val.k = "map" /\ Cardinality(DOMAIN val.v) = 1
                  /\ val.v[gk].k \in {"map", "smap", "list", "slist"}
  IN IF labelled
     THEN LET inner == val.v[gk]
          IN CASE inner.k = "map" ->
                    [other EXCEPT !.groupKey = gk, !.kind = "map", !.mapVal = inner.v]
               [] inner.k = "smap" ->
                    [other EXCEPT !.groupKey = gk, !.kind = "map", !.mapVal = ToAnyMap(inner.v)]
               [] inner.k = "list" ->
                    [other EXCEPT !.groupKey = gk, !.kind = "slice", !.sliceVal = inner.v]
               [] OTHER ->
                    [other EXCEPT !.groupKey = gk, !.kind = "slice", !.sliceVal = ToAnyList(inner.v)]
     ELSE IF val.k = "map"
          THEN IF HasSliceValue(val.v) THEN other
               ELSE [other EXCEPT !.kind = "map", !.mapVal = val.v]
     ELSE IF val.k = "list" THEN [other EXCEPT !.kind = "slice", !.sliceVal = val.v]
     ELSE IF val.k = "slist" THEN [other EXCEPT !.kind = "slice", !.sliceVal = ToAnyList(val.v)]
     ELSE other

\* the keys one input item contributes to the locally known names
LocalKeysOf(it) ==
  IF it.k # "map" THEN {}
  ELSE IF Cardinality(DOMAIN it.v) = 1
       THEN LET inner == it.v[CHOOSE n \in DOMAIN it.v : TRUE]
            IN IF inner.k = "map" THEN DOMAIN inner.v ELSE {}
       ELSE IF HasSliceValue(it.v) THEN {} ELSE DOMAIN it.v

collectLocalKeys(its) == UNION {LocalKeysOf(its[n]) : n \in DOMAIN its}

metaHasAnyKnown(meta, known) == \E n \in DOMAIN meta.names : meta.names[n] \in known

\* ------------------------------------------------------------------------
\* RenderSmartTable: classification and segmentation
\* ------------------------------------------------------------------------
\* one entry of tplRows
ClassifyRow(r, localKeys) ==
  LET m == parseTplMeta(r)
      isPos == m.percentSeen > 0
      isNamed == ~isPos /\ Len(m.names) > 0 /\ metaHasAnyKnown(m, localKeys)
  IN [xml |-> r, meta |-> m, isNamed |-> isNamed, isPos |-> isPos,
      isStatic |-> ~isPos /\ ~isNamed]

ClassifyRows(rs, its) ==
  LET localKeys == collectLocalKeys(its)
  IN [n \in DOMAIN rs |-> ClassifyRow(rs[n], localKeys)]

IsTpl(tr) == tr.isNamed \/ tr.isPos

\* firstTplIdx and lastTplIdx, 1-based; 0 stands for the source's -1
FirstTplIdx(trs) ==
  IF \E n \in DOMAIN trs : IsTpl(trs[n])
  THEN CHOOSE n \in DOMAIN trs : IsTpl(trs[n]) /\ \A q \in 1..(n - 1) : ~IsTpl(trs[q])
  ELSE 0

LastTplIdx(trs) ==
  IF \E n \in DOMAIN trs : IsTpl(trs[n])
  THEN CHOOSE n \in DOMAIN trs : IsTpl(trs[n]) /\ \A q \in (n + 1)..Len(trs) : ~IsTpl(trs[q])
  ELSE 0

\* headerRows: the rows before the first template row
HeaderRows(trs) ==
  LET f == FirstTplIdx(trs)
  IN IF f > 1 THEN [n \in 1..(f - 1) |-> trs[n].xml] ELSE <<>>

\* FooterRows with the bound test off by one: a one-row footer is lost
FooterRowsOffByOne(trs) ==
  LET l == LastTplIdx(trs)
  IN IF l >= 1 /\ l + 1 < Len(trs) THEN [n \in 1..(Len(trs) - l) |-> trs[l + n].xml] ELSE <<>>

\* footerRows: the rows after the last template row
FooterRows(trs) ==
  LET l == LastTplIdx(trs)
  IN IF l >= 1 /\ l < Len(trs) THEN [n \in 1..(Len(trs) - l) |-> trs[l + n].xml] ELSE <<>>

\* templates: the form library, the named and positional rows only
Templates(trs) == SelectSeq(trs, IsTpl)

\* nitems: the normalized items that are not "other"
NormalizeAll(its) ==
  SelectSeq([n \in DOMAIN its |-> normalizeItem(its[n])], LAMBDA ni : ni.kind # "other")

\* ------------------------------------------------------------------------
\* RenderSmartTable: matching
\* ------------------------------------------------------------------------
\* number of entries of names that are keys of m
RECURSIVE CountKnown(_, _)
CountKnown(names, m) ==
  IF names = <<>> THEN 0
  ELSE (IF Head(names) \in DOMAIN m THEN 1 ELSE 0) + CountKnown(Tail(names), m)

Abs(n) == IF n < 0 THEN -n ELSE n

\* the score of one template for one item
Score(it, t) ==
  IF it.kind = "map" /\ t.isNamed THEN CountKnown(t.meta.names, it.mapVal)
  ELSE IF it.kind = "slice" /\ t.isPos
       THEN IF t.meta.percentSeen = Len(it.sliceVal)
            THEN 1000 + t.meta.percentSeen
            ELSE 100 - Abs(t.meta.percentSeen - Len(it.sliceVal))
  ELSE 0

\* the loop of tryMatch with a later template of the same score taking over
RECURSIVE BestFromLastWins(_, _, _, _)
BestFromLastWins(it, tpls, i, best) ==
  IF i > Len(tpls) THEN best
  ELSE LET sc == Score(it, tpls[i])
       IN BestFromLastWins(it, tpls, i + 1,
                           IF sc >= best.score THEN [tplIdx |-> i, score |-> sc] ELSE best)

\* the loop of tryMatch: the first template with the strictly best score
RECURSIVE BestFrom(_, _, _, _)
BestFrom(it, tpls, i, best) ==
  IF i > Len(tpls) THEN best
  ELSE LET sc == Score(it, tpls[i])
       IN BestFrom(it, tpls, i + 1,
                   IF sc > best.score THEN [tplIdx |-> i, score |-> sc] ELSE best)

\* tryMatch that falls back to the first template when nothing scores
tryMatchFirstOnMiss(it, tpls) ==
  LET best == BestFrom(it, tpls, 1, [tplIdx |-> -1, score |-> -1])
  IN IF best.score <= 0 THEN [tplIdx |-> 1, score |-> 1] ELSE best

\* tryMatch: template indices are 1-based here, a miss is tplIdx -1, score 0
tryMatch(it, tpls) ==
  LET best == BestFrom(it, tpls, 1, [tplIdx |-> -1, score |-> -1])
  IN IF best.score <= 0 THEN [tplIdx |-> -1, score |-> 0] ELSE best

\* the field-name union of one named template's bucket (Pass #3)
UnionOf(t, bucket, nits) ==
  IF ~t.isNamed THEN {}
  ELSE UNION {DOMAIN nits[bucket[n]].mapVal : n \in DOMAIN bucket}

\* ------------------------------------------------------------------------
\* RenderSmartTable: result generation
\* ------------------------------------------------------------------------
\* the row of one bound item
RenderItem(it, t, union) ==
  IF t.isPos THEN renderPositional(t.xml, it.sliceVal)
  ELSE renderNamedWithUnion(t.xml, t.meta, it.mapVal, union)

\* the rows of the items from position i on, skipped items left out
RECURSIVE RenderItems(_, _, _, _, _)
RenderItems(nits, asg, tpls, unions, i) ==
  IF i > Len(nits) THEN <<>>
  ELSE (IF asg[i] < 0 THEN <<>>
        ELSE <<RenderItem(nits[i], tpls[asg[i]], unions[asg[i]])>>)
       \o RenderItems(nits, asg, tpls, unions, i + 1)

\* outRows: header, the data rows, footer
OutRows(hdr, ftr, nits, asg, tpls, unions) ==
  hdr \o RenderItems(nits, asg, tpls, unions, 1) \o ftr

WrapTable(rs) == <<TableOpeningTag>> \o Join(rs) \o <<TableEndingTag>>

\* ------------------------------------------------------------------------
\* RepairTags
\* ------------------------------------------------------------------------
\* BoundaryStart without the three tests for closing tags
BoundaryStartNoClosing == {"<w:t>", "<w:r>", "<w:rPr>", "<w:p>", "<w:t"}

\* the lexemes at which one of the prefix tests of RepairTags succeeds: the
\* text from there on starts with <w:t, </w:t>, <w:r, </w:r>, <w:rPr, </w:rPr>
\* or <w:, which the opening tag of a paragraph does too and its closing tag
\* does not (the last lexeme is a token that is cut off before its ">")
BoundaryStart ==
  {"<w:t>", "</w:t>", "<w:r>", "</w:r>", "<w:rPr>", "</w:rPr>", "<w:p>", "<w:t"}

\* the lexemes that hold the byte ">" (as their last byte)
HasGt == {"<w:t>", "</w:t>", "<w:r>", "</w:r>", "<w:rPr>", "</w:rPr>", "<w:p>", "</w:p>", ">"}

\* strings.IndexByte(body[i:], '>'): the first lexeme from i on that holds ">",
\* 0 when there is none
RECURSIVE IndexGt(_, _)
IndexGt(body, i) ==
  IF i > Len(body) THEN 0
  ELSE IF body[i] \in HasGt THEN i
  ELSE IndexGt(body, i + 1)

\* the loop of RepairTags from position i on: what it appends to b
RECURSIVE RepairScan(_, _, _, _)
RepairScan(body, i, inCurly, inSquare) ==
  IF i > Len(body) THEN <<>>
  ELSE IF ~inCurly /\ ~inSquare
    THEN <<body[i]>>
         \o RepairScan(body, i + 1, body[i] = "{", body[i] # "{" /\ body[i] = "[")
  ELSE IF body[i] \in BoundaryStart /\ IndexGt(body, i) # 0
    THEN RepairScan(body, IndexGt(body, i) + 1, inCurly, inSquare)
  ELSE IF (inCurly /\ body[i] = "}") \/ (inSquare /\ body[i] = "]")
    THEN <<body[i]>>
         \o RepairScan(body, i + 1, FALSE, IF inCurly THEN inSquare ELSE FALSE)
  ELSE <<body[i]>> \o RepairScan(body, i + 1, inCurly, inSquare)

\* RepairTags: the returned text (the returned error is always nil)
RepairTags(body) == RepairScan(body, 1, FALSE, FALSE)

\* ------------------------------------------------------------------------
\* ReplaceTagWithParagraph
\* ------------------------------------------------------------------------
ParagraphOpeningTag == "<w:p>"

ParagraphClosingTag == "</w:p>"

\* the only text node opening that extractParagraphText looks for
TextOpeningTag == "<w:t>"

TextClosingTag == "</w:t>"

\* the opening of the paragraphs that ReplaceTagWithParagraph writes
PreservedOpening == <<"<w:p>", "<w:r>", "<w:t xml:space=\"preserve\">">>

\* extractParagraphText: the contents of the <w:t>...</w:t> nodes, joined
RECURSIVE extractParagraphText(_)
extractParagraphText(p) ==
  LET start == FindLex(p, 1, TextOpeningTag)
      end == FindLex(p, start + 1, TextClosingTag)
  IN IF start > Len(p) \/ end > Len(p) THEN <<>>
     ELSE SubSeq(p, start + 1, end - 1) \o extractParagraphText(SubSeq(p, end + 1, Len(p)))

\* xmlEscape of one lexeme: the "&" of an entity is escaped once more, a
\* quote becomes an entity, the other lexemes hold none of the five bytes
EscapeLex(l) ==
  IF l = "&amp;" THEN <<"&amp;", "amp;">>
  ELSE IF l = "\"" THEN <<"&quot;">>
  ELSE <<l>>

\* xmlEscape
RECURSIVE xmlEscape(_)
xmlEscape(t) == IF t = <<>> THEN <<>> ELSE EscapeLex(Head(t)) \o xmlEscape(Tail(t))

\* strings.Index(t, sub) from position i on: the first position where sub
\* starts, 0 when there is none
RECURSIVE IndexSeq(_, _, _)
IndexSeq(t, sub, i) ==
  IF i + Len(sub) - 1 > Len(t) THEN 0
  ELSE IF SubSeq(t, i, i + Len(sub) - 1) = sub THEN i
  ELSE IndexSeq(t, sub, i + 1)

\* the paragraph written for the text before or after the tag
TextParagraph(t) ==
  IF TrimSpace(t) = <<>> THEN <<>>
  ELSE PreservedOpening \o xmlEscape(TrimSpace(t)) \o <<"</w:t>", "</w:r>", "</w:p>">>

\* the loop of ReplaceTagWithParagraph from pos on: what it writes to out
RECURSIVE ReplaceScan(_, _, _, _)
ReplaceScan(b, pos, tg, c) ==
  LET start == FindLex(b, pos, ParagraphOpeningTag)
      end == FindLex(b, start, ParagraphClosingTag)
  IN IF start > Len(b) \/ end > Len(b) THEN SubSeq(b, pos, Len(b))
     ELSE LET text == extractParagraphText(SubSeq(b, start, end))
              at == IndexSeq(text, tg, 1)
          IN IF at = 0
               THEN SubSeq(b, pos, end) \o ReplaceScan(b, end + 1, tg, c)
             ELSE IF TrimSpace(text) = tg
               THEN SubSeq(b, pos, start - 1) \o c \o ReplaceScan(b, end + 1, tg, c)
             ELSE SubSeq(b, pos, start - 1)
                  \o TextParagraph(SubSeq(text, 1, at - 1))
                  \o c
                  \o TextParagraph(SubSeq(text, at + Len(tg), Len(text)))
                  \o ReplaceScan(b, end + 1, tg, c)

\* ReplaceTagWithParagraph that keeps the wrapper of a paragraph holding
\* only the tag
ReplaceTagWithParagraphWrapped(b, tg, c) ==
  ReplaceScan(b, 1, tg, <<"<w:p>">> \o c \o <<"</w:p>">>)

ReplaceTagWithParagraph(b, tg, c) == ReplaceScan(b, 1, tg, c)

\* ------------------------------------------------------------------------
\* ResolveTables
\* ------------------------------------------------------------------------
openPrefix == "[table/"

closeTag == "[/table]"

\* normalizeItems that takes a value that is no slice as a list of one item
normalizeItemsAny(raw) ==
  IF raw.k = "list" THEN [ok |-> TRUE, items |-> raw.v] ELSE [ok |-> TRUE, items |-> <<raw>>]

\* normalizeItems: a []any is taken as it is, a value that is no slice is
\* refused
normalizeItems(raw) ==
  IF raw.k = "list" THEN [ok |-> TRUE, items |-> raw.v] ELSE [ok |-> FALSE, items |-> <<>>]

\* strings.Replace(b, sub, "", 1)
RemoveFirst(b, sub) ==
  LET at == IndexSeq(b, sub, 1)
  IN IF at = 0 THEN b ELSE SubSeq(b, 1, at - 1) \o SubSeq(b, at + Len(sub), Len(b))

\* steps 1 to 5 of one iteration of ResolveTables: where the region is.
\* how is "none" (no opening marker), "broken" (no "]"), "open" (no closing
\* marker), "empty" (no table between the markers) or "table"
FindRegion(b) ==
  LET start == FindLex(b, 1, openPrefix)
      openEnd == FindIn(b, start, {"]", "[/table]"})
      closePos == FindLex(b, openEnd + 1, closeTag)
      tblStart == FindLex(b, openEnd + 1, TableOpeningTag)
      tblEnd == FindLex(b, openEnd + 1, TableEndingTag)
      none == [how |-> "none", openTag |-> <<>>, name |-> <<>>, tableXML |-> <<>>]
  IN IF start > Len(b) THEN none
     ELSE IF openEnd > Len(b)
       THEN [none EXCEPT !.how = "broken", !.openTag = SubSeq(b, start, Len(b))]
     ELSE LET found == [none EXCEPT !.openTag = SubSeq(b, start, openEnd),
                                    !.name = IF b[openEnd] = "]"
                                             THEN SubSeq(b, start + 1, openEnd - 1)
                                             ELSE SubSeq(b, start + 1, openEnd)]
          IN IF closePos > Len(b) THEN [found EXCEPT !.how = "open"]
             ELSE IF tblStart >= closePos \/ tblEnd >= closePos
               THEN [found EXCEPT !.how = "empty"]
             ELSE [found EXCEPT !.how = "table", !.tableXML = SubSeq(b, tblStart, tblEnd)]

\* the dataset of a region: its name is one lexeme that is a key of the data
HasData(d, name) == Len(name) = 1 /\ name[1] \in DOMAIN d

\* ------------------------------------------------------------------------
\* ProcessTrimTags
\* ------------------------------------------------------------------------
\* classifyWS: the kind (a wsKind) of the text s of a node
classifyWS(s) ==
  IF s = <<"\t">> THEN "wsSpacesTabs"
  ELSE IF s = <<"\n">> THEN "wsHasNewline"
  ELSE IF \A n \in DOMAIN s : s[n] \in {" ", "\t"} THEN "wsSpacesTabs"
  ELSE IF \A n \in DOMAIN s : s[n] \in {" ", "\t", "\n"}
    THEN IF \E n \in DOMAIN s : s[n] = "\n" THEN "wsHasNewline" ELSE "wsSpacesTabs"
  ELSE "wsNone"

\* computeMasks that reads the trailing decoration for both sides
computeMasksTrailing(tagText) ==
  LET right == IF (\E n \in DOMAIN tagText : tagText[n] = "~}") THEN "trimSTN"
               ELSE IF (\E n \in DOMAIN tagText : tagText[n] = "-}") THEN "trimST"
               ELSE "trimNone"
  IN [left |-> right, right |-> right]

\* computeMasks: what the node of a marker removes on its left and right
computeMasks(tagText) ==
  [left |-> IF (\E n \in DOMAIN tagText : tagText[n] = "{~") THEN "trimSTN"
            ELSE IF (\E n \in DOMAIN tagText : tagText[n] = "{-") THEN "trimST"
            ELSE "trimNone",
   right |-> IF (\E n \in DOMAIN tagText : tagText[n] = "~}") THEN "trimSTN"
             ELSE IF (\E n \in DOMAIN tagText : tagText[n] = "-}") THEN "trimST"
             ELSE "trimNone"]

\* canEat that lets the weak strength remove line breaks too
canEatAnyStrength(kind, side) == side # "trimNone" /\ kind # "wsNone"

\* canEat: a node of this kind is removed on a side of this strength
canEat(kind, side) ==
  IF side = "trimNone" \/ kind = "wsNone" THEN FALSE
  ELSE IF side = "trimST" THEN kind = "wsSpacesTabs"
  ELSE kind = "wsSpacesTabs" \/ kind = "wsHasNewline"

\* stripMarkersInPlace: the four decoration tokens become the plain braces
stripMarkersInPlace(s) ==
  [n \in DOMAIN s |-> IF s[n] \in {"{~", "{-"} THEN "{"
                      ELSE IF s[n] \in {"~}", "-}"} THEN "}"
                      ELSE s[n]]

\* hasAnyTrimMarkers, also the test of ProcessTrimTags on the text of a node
hasAnyTrimMarkers(s) == \E n \in DOMAIN s : s[n] \in {"{~", "~}", "{-", "-}"}

\* strings.ReplaceAll(s, sub, by) for a sub of three lexemes or one
RECURSIVE ReplaceAllSeq(_, _, _)
ReplaceAllSeq(s, sub, by) ==
  IF s = <<>> THEN <<>>
  ELSE IF Len(s) >= Len(sub) /\ SubSeq(s, 1, Len(sub)) = sub
    THEN by \o ReplaceAllSeq(SubSeq(s, Len(sub) + 1, Len(s)), sub, by)
  ELSE <<Head(s)>> \o ReplaceAllSeq(Tail(s), sub, by)

\* wrapTabsBreaksInParagraph: a tab or a break becomes a text node
wrapTabsBreaksInParagraph(pXML) ==
  ReplaceAllSeq(ReplaceAllSeq(pXML, <<"<w:tab/>">>, <<"<w:t>", "\t", "</w:t>">>),
                <<"<w:br/>">>, <<"<w:t>", "\n", "</w:t>">>)

\* unwrapTabsBreaksInXML: a text node that is one tab or one line feed,
\* written as it is or as a character reference, becomes the element again
unwrapTabsBreaksInXML(x) ==
  ReplaceAllSeq(ReplaceAllSeq(ReplaceAllSeq(ReplaceAllSeq(x,
    <<"<w:t>", "\t", "</w:t>">>, <<"<w:tab/>">>),
    <<"<w:t>", "\n", "</w:t>">>, <<"<w:br/>">>),
    <<"<w:t>", "&#x9;", "</w:t>">>, <<"<w:tab/>">>),
    <<"<w:t>", "&#xA;", "</w:t>">>, <<"<w:br/>">>)

\* the character data as the decoder reads them: a character reference is
\* its character
UnescapeText(t) ==
  [n \in DOMAIN t |-> IF t[n] = "&#x9;" THEN "\t" ELSE IF t[n] = "&#xA;" THEN "\n" ELSE t[n]]

\* xml.Unmarshal, the children of a run from i on: the texts of its t
\* elements, the attributes of the openings dropped
RECURSIVE UnmarshalTexts(_, _)
UnmarshalTexts(c, i) ==
  IF i > Len(c) THEN [ok |-> TRUE, texts |-> <<>>]
  ELSE LET e == FindLex(c, i, TextClosingTag)
       IN IF c[i] \notin {"<w:t>", "<w:t xml:space=\"preserve\">"} \/ e > Len(c) THEN [ok |-> FALSE, texts |-> <<>>]
          ELSE LET rest == UnmarshalTexts(c, e + 1)
               IN [ok |-> rest.ok,
                   texts |-> <<UnescapeText(SubSeq(c, i + 1, e - 1))>> \o rest.texts]

\* xml.Unmarshal, the children of the paragraph from i on: its runs. An
\* element that is opened and not closed is a syntax error
RECURSIVE UnmarshalRuns(_, _)
UnmarshalRuns(c, i) ==
  IF i > Len(c) THEN [ok |-> TRUE, runs |-> <<>>]
  ELSE LET e == FindLex(c, i, "</w:r>")
       IN IF c[i] # "<w:r>" \/ e > Len(c) THEN [ok |-> FALSE, runs |-> <<>>]
          ELSE LET r == UnmarshalTexts(SubSeq(c, i + 1, e - 1), 1)
                   rest == UnmarshalRuns(c, e + 1)
               IN [ok |-> r.ok /\ rest.ok, runs |-> <<r.texts>> \o rest.runs]

\* xml.Unmarshal into a paragraphStruct: the text must be one p element
Unmarshal(x) ==
  IF Len(x) < 2 \/ x[1] # ParagraphOpeningTag \/ x[Len(x)] # ParagraphClosingTag
  THEN [ok |-> FALSE, runs |-> <<>>]
  ELSE UnmarshalRuns(SubSeq(x, 2, Len(x) - 1), 1)

\* the character data as the encoder writes it
EscapeText(t) ==
  [n \in DOMAIN t |-> IF t[n] = "\t" THEN "&#x9;" ELSE IF t[n] = "\n" THEN "&#xA;" ELSE t[n]]

\* encodeRun: the texts of a run, each in a t element without attributes
RECURSIVE encodeTexts(_)
encodeTexts(texts) ==
  IF texts = <<>> THEN <<>>
  ELSE <<"<w:t>">> \o EscapeText(Head(texts)) \o <<"</w:t>">> \o encodeTexts(Tail(texts))

RECURSIVE encodeRuns(_)
encodeRuns(runs) ==
  IF runs = <<>> THEN <<>>
  ELSE <<"<w:r>">> \o encodeTexts(Head(runs)) \o <<"</w:r>">> \o encodeRuns(Tail(runs))

\* MarshalXML of a paragraphStruct
MarshalXML(runs) == <<"<w:p>">> \o encodeRuns(runs) \o <<"</w:p>">>

\* dropTextAt: texts without its i-th element
dropTextAt(texts, i) == SubSeq(texts, 1, i - 1) \o SubSeq(texts, i + 1, Len(texts))

\* the walk to the left of the node ti: the nodes that can be eaten are
\* dropped, ti follows
RECURSIVE EatLeft(_, _, _)
EatLeft(texts, ti, mask) ==
  IF ti > 1 /\ canEat(classifyWS(texts[ti - 1]), mask)
  THEN EatLeft(dropTextAt(texts, ti - 1), ti - 1, mask)
  ELSE [texts |-> texts, ti |-> ti]

\* the walk to the right of the node ti
RECURSIVE EatRight(_, _, _)
EatRight(texts, ti, mask) ==
  IF ti < Len(texts) /\ canEat(classifyWS(texts[ti + 1]), mask)
  THEN EatRight(dropTextAt(texts, ti + 1), ti, mask)
  ELSE texts

\* the loop over the texts of one run, from the node ti on
RECURSIVE TrimRun(_, _)
TrimRun(texts, ti) ==
  IF ti > Len(texts) THEN texts
  ELSE IF ~hasAnyTrimMarkers(texts[ti]) THEN TrimRun(texts, ti + 1)
  ELSE LET m == computeMasks(texts[ti])
           l == EatLeft(texts, ti, m.left)
           r == EatRight(l.texts, l.ti, m.right)
       IN TrimRun([r EXCEPT ![l.ti] = stripMarkersInPlace(r[l.ti])], l.ti + 1)

\* strings.Split(body, "w:p>"): the parts, each with the lexeme that holds
\* the separator after it as its last lexeme (the last part has none)
RECURSIVE SplitParts(_)
SplitParts(b) ==
  LET e == FindIn(b, 1, {ParagraphOpeningTag, ParagraphClosingTag})
  IN IF e > Len(b) THEN <<b>>
     ELSE <<SubSeq(b, 1, e)>> \o SplitParts(SubSeq(b, e + 1, Len(b)))

\* one iteration of the loop of ProcessTrimTags: what becomes of a part.
\* The paragraph put together from the part is skipped when it has no
\* decoration token or cannot be parsed
TrimPart(part) ==
  LET paraXML == <<ParagraphOpeningTag>> \o part
      p == Unmarshal(wrapTabsBreaksInParagraph(paraXML))
      out == unwrapTabsBreaksInXML(MarshalXML([n \in DOMAIN p.runs |-> TrimRun(p.runs[n], 1)]))
  IN IF ~hasAnyTrimMarkers(paraXML) \/ ~p.ok THEN part
     ELSE Tail(out)

\* ------------------------------------------------------------------------
\* TransformTemplate
\* ------------------------------------------------------------------------
\* tag without a leading "{" and without a trailing "}"
StripBraces(tag) ==
  LET t == IF tag # <<>> /\ Head(tag) = "{" THEN Tail(tag) ELSE tag
  IN IF t # <<>> /\ t[Len(t)] = "}" THEN SubSeq(t, 1, Len(t) - 1) ELSE t

\* the loop of transformTag over the runes of tag from i on: the parts
RECURSIVE TagParts(_, _, _, _, _)
TagParts(tag, i, parts, buf, inQuote) ==
  IF i > Len(tag)
  THEN IF buf = <<>> THEN parts
       ELSE IF inQuote THEN Append(parts, <<"\"">> \o buf \o <<"\"">>)
       ELSE Append(parts, buf)
  ELSE IF tag[i] = Backtick
    THEN IF inQuote
         THEN TagParts(tag, i + 1, Append(parts, <<"\"">> \o buf \o <<"\"">>), <<>>, FALSE)
         ELSE TagParts(tag, i + 1, parts, <<>>, TRUE)
  ELSE IF tag[i] \in {"|", ":"}
    THEN IF inQuote THEN TagParts(tag, i + 1, parts, Append(buf, tag[i]), inQuote)
         ELSE IF buf # <<>> THEN TagParts(tag, i + 1, Append(parts, buf), <<>>, inQuote)
         ELSE TagParts(tag, i + 1, parts, buf, inQuote)
  ELSE TagParts(tag, i + 1, parts, Append(buf, tag[i]), inQuote)

\* strconv.ParseFloat accepts arg: a run of digits
ParseFloatOk(arg) == arg # <<>> /\ \A n \in DOMAIN arg : arg[n] \in DigitLex

\* an argument as transformTag writes it: as it is when it is quoted or a
\* number, between double quotes otherwise
WriteArg(arg) ==
  IF arg # <<>> /\ Head(arg) = "\"" /\ arg[Len(arg)] = "\"" THEN arg
  ELSE IF ParseFloatOk(arg) THEN arg
  ELSE <<"\"">> \o arg \o <<"\"">>

\* the arguments parts[i..], each after a blank
RECURSIVE WriteArgs(_, _)
WriteArgs(parts, i) ==
  IF i > Len(parts) THEN <<>> ELSE <<" ">> \o WriteArg(parts[i]) \o WriteArgs(parts, i + 1)

\* transformTag
transformTag(tag) ==
  LET parts == TagParts(StripBraces(tag), 1, <<>>, <<>>, FALSE)
  IN IF parts = <<>> THEN <<"{", "}">>
     ELSE <<"{", ".">> \o TrimSpace(parts[1])
          \o (IF Len(parts) > 1
              THEN <<" ", "|", " ">> \o TrimSpace(parts[2]) \o WriteArgs(parts, 3)
              ELSE <<>>)
          \o <<"}">>

\* looksLikeOldStyle: the tag does not start as a native one. The keywords
\* if, range and with are looked for with a blank behind them, else and end
\* without
looksLikeOldStyle(tag) ==
  LET t == TrimSpace(StripBraces(tag))
  IN IF t # <<>> /\ Head(t) \in {".", Backtick, "\""} THEN FALSE
     ELSE IF \/ Len(t) >= 2 /\ t[1] \in {"if", "range", "with"} /\ t[2] = " "
             \/ t # <<>> /\ Head(t) \in {"else", "end"}
       THEN FALSE
     ELSE TRUE

\* the loop of TransformTemplate over the runes of input from i on
RECURSIVE TransformScan(_, _, _, _, _, _)
TransformScan(input, i, out, token, inTag, inQuote) ==
  IF i > Len(input) THEN (IF inTag THEN out \o token ELSE out)
  ELSE IF input[i] = "{"
    THEN IF inTag THEN TransformScan(input, i + 1, out, Append(token, "{"), inTag, inQuote)
         ELSE TransformScan(input, i + 1, out, <<"{">>, TRUE, inQuote)
  ELSE IF input[i] = Backtick
    THEN TransformScan(input, i + 1, out, Append(token, Backtick), inTag,
                       IF inTag THEN ~inQuote ELSE inQuote)
  ELSE IF input[i] = "}"
    THEN IF inTag /\ ~inQuote
         THEN LET tok == Append(token, "}")
              IN TransformScan(input, i + 1,
                               out \o (IF looksLikeOldStyle(tok) THEN transformTag(tok) ELSE tok),
                               tok, FALSE, inQuote)
         ELSE IF inTag THEN TransformScan(input, i + 1, out, Append(token, "}"), inTag, inQuote)
         ELSE TransformScan(input, i + 1, Append(out, "}"), token, inTag, inQuote)
  ELSE IF inTag THEN TransformScan(input, i + 1, out, Append(token, input[i]), inTag, inQuote)
  ELSE TransformScan(input, i + 1, Append(out, input[i]), token, inTag, inQuote)

TransformTemplate(input) == TransformScan(input, 1, <<>>, <<>>, FALSE, FALSE)

\* ------------------------------------------------------------------------
\* Inputs
\* ------------------------------------------------------------------------
\* a static caption
RowCaption == <<"T">>

\* a row whose only marker names a field no labelled item supplies
RowX == <<"{", "x", "}">>

\* a named row: {a}{b|m}
RowAB == <<"{", "a", "}", "{", "b", "|", "m", "}">>

\* a second named row: {c}
RowC == <<"{", "c", "}">>

\* a positional row with two placeholders: %[1]s%[2]s
RowP2 == <<"%", "[", "1", "]", "s", "%", "[", "2", "]", "s">>

\* a positional row with one placeholder inside a backtick literal
RowP1 == <<"{", Backtick, "%", "[", "1", "]", "s", Backtick, "|", "m", "}">>

\* a named row with a field no item supplies: {a}{b|m}{x}
RowABX == <<"{", "a", "}", "{", "b", "|", "m", "}", "{", "x", "}">>

\* a positional row whose only placeholder has index 2: %[2]s
RowGap == <<"%", "[", "2", "]", "s">>

TxtA == VStr(<<"A">>)

TxtB == VStr(<<"B">>)

\* a value that reads as a replacement pattern: $1
TxtDollar == VStr(<<"$", "1">>)

\* a value that reads as a marker: {b}
TxtMarker == VStr(<<"{", "b", "}">>)

\* a value that reads as a placeholder: %[2]s
TxtPerc == VStr(<<"%", "[", "2", "]", "s">>)

\* Matching: the rows of the tables
RowLib == <<RowX, RowAB, RowC, RowP2>>

\* Matching: {g:{a:A}}, {g:{c:B}}, {g:{z:A}}, {h:[A,B]}, {g:[A]}, {h:{a:B}}
ItemLib ==
  << VMap([g |-> VMap([a |-> TxtA])]),
     VMap([g |-> VMap([c |-> TxtB])]),
     VMap([g |-> VMap([z |-> TxtA])]),
     VMap([h |-> VList(<<TxtA, TxtB>>)]),
     VMap([g |-> VList(<<TxtA>>)]),
     VMap([h |-> VMap([a |-> TxtB])]) >>

\* Item shapes: the rows of the tables
ShapeRowLib == <<RowCaption, RowAB, RowP2>>

\* Item shapes: {a:A}, {a:A,b:B}, {g:{a:A}}, {g:[A,B]}, [A,B], A, {a:[A],b:B},
\* {a:{c:A},b:B}, {g:map[string]string{a:A}}, []string{A}, map[string]string{a:A},
\* {g:[]string{A,B}}
ShapeLib ==
  << VMap([a |-> TxtA]),
     VMap([a |-> TxtA, b |-> TxtB]),
     VMap([g |-> VMap([a |-> TxtA])]),
     VMap([g |-> VList(<<TxtA, TxtB>>)]),
     VList(<<TxtA, TxtB>>),
     TxtA,
     VMap([a |-> VList(<<TxtA>>), b |-> TxtB]),
     VMap([a |-> VMap([c |-> TxtA]), b |-> TxtB]),
     VMap([g |-> VSMap([a |-> <<"A">>])]),
     VSList(<< <<"A">> >>),
     VSMap([a |-> <<"A">>]),
     VMap([g |-> VSList(<< <<"A">>, <<"B">> >>)]) >>

\* Rendering: the rows of the tables
RenderRowLib == <<RowABX, RowP2, RowP1, RowGap>>

\* Rendering: {g:{a:A}}, {g:{b:B}}, {g:{a:$1}}, {g:{a:{b},b:B}}, {h:[]}, {h:[A]},
\* {h:[A,B]}, {h:[A,B,A]}, {h:[%[2]s,B]}
RenderItemLib ==
  << VMap([g |-> VMap([a |-> TxtA])]),
     VMap([g |-> VMap([b |-> TxtB])]),
     VMap([g |-> VMap([a |-> TxtDollar])]),
     VMap([g |-> VMap([a |-> TxtMarker, b |-> TxtB])]),
     VMap([h |-> VList(<<>>)]),
     VMap([h |-> VList(<<TxtA>>)]),
     VMap([h |-> VList(<<TxtA, TxtB>>)]),
     VMap([h |-> VList(<<TxtA, TxtB, TxtA>>)]),
     VMap([h |-> VList(<<TxtPerc, TxtB>>)]) >>

\* RepairTags: the lexemes of the bodies
RepairLex == <<"{", "}", "[", "]", "a", "</w:t>", "<w:r>", "</w:p>", "<w:t", "<w:p>">>

\* RepairTags: the fragments of the longer bodies, among them a curly and a
\* square marker that formatting tokens cut in pieces, and whole paragraphs:
\* one with a marker cut between two runs, one that opens a marker, one that
\* closes a marker, one without delimiter
RepairChunks ==
  << <<"{", "a", "</w:t>", "<w:r>", "a", "}">>,
     <<"[", "</w:t>", "a", "</w:p>", "]">>,
     <<"<w:r>", "a", "</w:t>">>,
     <<"{", "a">>,
     <<"[", "<w:t">>,
     <<"a", "}">>,
     <<"<w:p>", "<w:r>", "<w:t>", "{", "</w:t>", "</w:r>",
       "<w:r>", "<w:t>", "a", "}", "</w:t>", "</w:r>", "</w:p>">>,
     <<"<w:p>", "<w:r>", "<w:t>", "{", "a", "</w:t>", "</w:r>", "</w:p>">>,
     <<"<w:p>", "<w:r>", "<w:t>", "a", "}", "</w:t>", "</w:r>", "</w:p>">>,
     <<"<w:p>", "<w:r>", "<w:t>", "a", "</w:t>", "</w:r>", "</w:p>">> >>

\* the marker {*a*}
StarTag == <<"{*", "a", "*}">>

\* a paragraph with one run and one text node
Para(t) == <<"<w:p>", "<w:r>", "<w:t>">> \o t \o <<"</w:t>", "</w:r>", "</w:p>">>

\* Paragraph functions: the pieces of the bodies. A paragraph that holds only
\* the marker; the marker between two words; no marker, an entity; the marker
\* between blanks; the marker outside every paragraph; the marker in a
\* paragraph whose opening tag has an attribute; an entity before the marker;
\* a marker that is not closed; two markers in one paragraph; the marker in a
\* text node that preserves space; the marker cut by a run boundary; an
\* opening and a closing that share their star
PieceLib ==
  << Para(StarTag),
     Para(<<"A", " ">> \o StarTag \o <<" ", "B">>),
     Para(<<"A", "&amp;", "B">>),
     Para(<<" ">> \o StarTag \o <<"\n">>),
     StarTag,
     <<"<w:p w:rsidR=\"1\">", "<w:r>", "<w:t>">> \o StarTag \o <<"</w:t>", "</w:r>", "</w:p>">>,
     Para(<<"A", "&amp;", "B", " ">> \o StarTag),
     Para(<<"{*", "a">>),
     Para(StarTag \o StarTag),
     <<"<w:p>", "<w:r>", "<w:t xml:space=\"preserve\">">> \o StarTag
       \o <<"</w:t>", "</w:r>", "</w:p>">>,
     <<"<w:p>", "<w:r>", "<w:t>", "{*", "</w:t>", "</w:r>", "<w:r>", "<w:t>", "a", "*}",
       "</w:t>", "</w:r>", "</w:p>">>,
     Para(<<"{*}">>) >>

\* the marker [table/x]
OpenTag == <<"[table/", "x", "]">>

\* a table with one row, its one cell a paragraph with the marker {a}
CellTable ==
  <<"<w:tbl>", "<w:tr>", "<w:tc>">> \o Para(<<"{", "a", "}">>) \o <<"</w:tc>", "</w:tr>", "</w:tbl>">>

\* a table without rows
NoRowsTable == <<"<w:tbl>", "</w:tbl>">>

\* the two marker paragraphs around t
Region(t) == Para(OpenTag) \o t \o Para(<<closeTag>>)

\* the region of the dataset z around the table with one row
RegionZ == Para(<<"[table/", "z", "]">>) \o CellTable \o Para(<<closeTag>>)

\* ResolveTables: the pieces of the bodies. A region with a table; one with a
\* table without rows; one without table; a paragraph of text; a region
\* whose markers are outside every paragraph; an opening marker alone; a
\* region of a second dataset
TablePieceLib ==
  << Region(CellTable),
     Region(NoRowsTable),
     Region(<<>>),
     Para(<<"A">>),
     OpenTag \o CellTable \o <<closeTag>>,
     Para(OpenTag),
     RegionZ >>

\* ResolveTables: the data. No dataset; x is a string; x and z have one
\* item; x has an item that waits for the binding of its group and one that
\* binds, z has one item
DataLib ==
  << <<>>,
     [x |-> TxtA],
     [x |-> VList(<<VMap([g |-> VMap([a |-> TxtA])])>>),
      z |-> VList(<<VMap([g |-> VMap([a |-> TxtB])])>>)],
     [x |-> VList(<<VMap([g |-> VMap([z |-> TxtB])]), VMap([g |-> VMap([a |-> TxtA])])>>),
      z |-> VList(<<VMap([g |-> VMap([a |-> TxtB])])>>)] >>

\* a text node
TextNode(t) == <<"<w:t>">> \o t \o <<"</w:t>">>

\* a text node that is one blank
SpaceNode == <<"<w:t xml:space=\"preserve\">", " ", "</w:t>">>

\* ProcessTrimTags: the nodes of a run. A blank, a tab, a line break, a
\* blank followed by a line feed, a word, and the marker a in its
\* decorations: strong on both sides, weak on both sides, and each strength
\* on one side only
NodeLib ==
  << SpaceNode,
     <<"<w:tab/>">>,
     <<"<w:br/>">>,
     TextNode(<<" ", "\n">>),
     TextNode(<<"A">>),
     TextNode(<<"{~", "a", "~}">>),
     TextNode(<<"{-", "a", "-}">>),
     TextNode(<<"{~", "a", "}">>),
     TextNode(<<"{", "a", "~}">>),
     TextNode(<<"{-", "a", "}">>),
     TextNode(<<"{", "a", "-}">>) >>

\* a run of nodes
Run(nodes) == <<"<w:r>">> \o Join(nodes) \o <<"</w:r>">>

\* ProcessTrimTags: the bodies around a run r. The run alone in a paragraph;
\* between two runs that hold a blank; in a paragraph with attributes; before
\* a paragraph that holds blanks around an undecorated marker
TrimBodies(r) ==
  { <<"<w:p>">> \o r \o <<"</w:p>">>,
    <<"<w:p>">> \o Run(<<SpaceNode>>) \o r \o Run(<<SpaceNode>>) \o <<"</w:p>">>,
    <<"<w:p w:rsidR=\"1\">">> \o r \o <<"</w:p>">>,
    <<"<w:p>">> \o r \o <<"</w:p>", "<w:p>">>
      \o Run(<<SpaceNode, TextNode(<<"{", "a", "}">>), SpaceNode>>) \o <<"</w:p>">> }

\* TransformTemplate: the argument tokens of a marker. A word, a number, and
\* backquoted literals: a word, a number, a colon, a bar, a closing brace,
\* a double quote, and the empty literal
ArgLib ==
  << <<"x">>,
     <<"1">>,
     <<Backtick, "x", Backtick>>,
     <<Backtick, "1", Backtick>>,
     <<Backtick, ":", Backtick>>,
     <<Backtick, "|", Backtick>>,
     <<Backtick, "}", Backtick>>,
     <<Backtick, "\"", Backtick>>,
     <<Backtick, Backtick>> >>

\* the marker {a|m:arg:arg...}
ArgMarker(args) ==
  <<"{", "a", "|", "m">> \o Join([n \in DOMAIN args |-> <<":">> \o args[n]]) \o <<"}">>

\* TransformTemplate: markers of the template language. A field, a dotted
\* path, a field with a modifier, with two chained modifiers, and fields
\* whose names begin with the letters of a keyword
FieldLib ==
  << <<"{", "a", "}">>,
     <<"{", "a", ".", "b", "}">>,
     <<"{", "a", "|", "m", "}">>,
     <<"{", "a", "|", "m", "|", "s", ":", "x", "}">>,
     <<"{", "end", "_d", "}">>,
     <<"{", "else", "_d", "|", "m", "}">>,
     <<"{", "if", "_d", "}">> >>

\* TransformTemplate: text and markers of the evaluator. A word, a backquote
\* in the text, a field access, a call with a string, a string, the five
\* keywords, and a call whose string holds braces
NativeLib ==
  << <<"x">>,
     <<Backtick>>,
     <<"{", ".", "a", "}">>,
     <<"{", ".", "a", " ", "|", " ", "m", " ", "\"", "x", "\"", "}">>,
     <<"{", "\"", "x", "\"", "}">>,
     <<"{", "if", " ", ".", "a", "}">>,
     <<"{", "else", "}">>,
     <<"{", "end", "}">>,
     <<"{", "range", " ", ".", "a", "}">>,
     <<"{", "with", " ", ".", "a", "}">>,
     <<"{", ".", "a", " ", "|", " ", "m", " ", "\"", "}", "{", "x", "\"", "}">> >>

TransformLib == FieldLib \o NativeLib

\* the replacements given to ReplaceTagWithParagraph: nothing, a word, a table
ContentLib == << <<>>, <<"C">>, <<"<w:tbl>", "</w:tbl>">> >>

\* the markup of a table with the given row contents
MakeTable(contents) ==
  <<TableOpeningTag>>
  \o Join([n \in DOMAIN contents |-> <<TableRowOpeningTag>> \o contents[n] \o <<TableRowClosingTag>>])
  \o <<TableEndingTag>>

\* every sequence of at most max elements of lib
SeqsUpTo(lib, max) ==
  UNION {{[n \in 1..len |-> lib[f[n]]] : f \in [1..len -> DOMAIN lib]} : len \in 0..max}

\* ------------------------------------------------------------------------
\* State
\* ------------------------------------------------------------------------
VARIABLES
  tableXML,     \* argument: the table markup
  items,        \* argument: the data items
  pc,           \* position in RenderSmartTable
  rows,         \* extractTableRows(inner)
  tplRows,      \* the classified rows
  headerRows,
  footerRows,
  templates,    \* the form library
  nitems,       \* the normalized items
  binding,      \* groupKey -> template index
  assigned,     \* per item: template index, -1 skip, -2 wait
  buckets,      \* per template: the indices of its items
  waitZone,     \* indices of the items left waiting by pass 1
  idx,          \* loop cursor of pass 1 (into nitems) and pass 2 (into waitZone)
  unionFields,  \* per template: the field names seen in its bucket
  outRows,      \* the rows of the result
  result,       \* the returned markup
  err,          \* the returned error
  fn,           \* the document-level function that was called
  dpc,          \* position in it
  body0,        \* argument: the body given to the document-level function
  body,         \* the body as rewritten so far
  tag,          \* argument: the marker to replace
  replacement,  \* argument: the content that replaces the marker
  data,         \* argument: the datasets by name
  ret,          \* the returned body
  iter,         \* number of loop iterations taken so far
  globalMedia,  \* globalMedia.files: the media pool of the process
  localMedia,   \* per Docx: d.localMedia
  files,        \* per Docx: d.files
  archive       \* per Docx: the archive written last, and by which function

\* the variables of the document-level functions
docVars == <<fn, dpc, body0, body, tag, replacement, data, ret, iter>>

\* the variables of the media pool
mediaVars == <<globalMedia, localMedia, files, archive>>

vars == <<tableXML, items, pc, rows, tplRows, headerRows, footerRows, templates, nitems,
          binding, assigned, buckets, waitZone, idx, unionFields, outRows, result, err,
          docVars, mediaVars>>

\* the Docx instances of the process
Docs == {1, 2}

\* a map without entries
NoFiles == <<>>

\* no document has been opened
MediaIdle ==
  /\ globalMedia = NoFiles
  /\ localMedia = [d \in Docs |-> NoFiles]
  /\ files = [d \in Docs |-> NoFiles]
  /\ archive = [d \in Docs |-> [by |-> "none", entries |-> NoFiles]]

NoBinding == [n \in {} |-> 0]

\* no document-level function is running
DocIdle ==
  /\ fn = "none"
  /\ dpc = "none"
  /\ body0 = <<>>
  /\ body = <<>>
  /\ tag = <<>>
  /\ replacement = <<>>
  /\ data = <<>>
  /\ ret = <<>>
  /\ iter = 0

\* RenderSmartTable is not running
TableIdle ==
  /\ tableXML = <<>>
  /\ items = <<>>
  /\ pc = "idle"
  /\ rows = <<>>
  /\ tplRows = <<>>
  /\ headerRows = <<>>
  /\ footerRows = <<>>
  /\ templates = <<>>
  /\ nitems = <<>>
  /\ binding = NoBinding
  /\ assigned = <<>>
  /\ buckets = <<>>
  /\ waitZone = <<>>
  /\ idx = 0
  /\ unionFields = <<>>
  /\ outRows = <<>>
  /\ result = <<>>
  /\ err = FALSE

\* the variables of RenderSmartTable
tableVars == <<tableXML, items, pc, rows, tplRows, headerRows, footerRows, templates, nitems,
               binding, assigned, buckets, waitZone, idx, unionFields, outRows, result, err>>

\* the state on entry to RenderSmartTable(t, its)
Entry(t, its) ==
  /\ tableXML = t
  /\ items = its
  /\ pc = "start"
  /\ rows = <<>>
  /\ tplRows = <<>>
  /\ headerRows = <<>>
  /\ footerRows = <<>>
  /\ templates = <<>>
  /\ nitems = <<>>
  /\ binding = NoBinding
  /\ assigned = <<>>
  /\ buckets = <<>>
  /\ waitZone = <<>>
  /\ idx = 0
  /\ unionFields = <<>>
  /\ outRows = <<>>
  /\ result = <<>>
  /\ err = FALSE

Init ==
  \E contents \in SeqsUpTo(RowLib, MaxRows) :
    \E its \in SeqsUpTo(ItemLib, MaxItems) :
      Entry(MakeTable(contents), its) /\ DocIdle /\ MediaIdle

\* RenderSmartTable called with tables and items of every item shape
InitShapes ==
  \E contents \in SeqsUpTo(ShapeRowLib, MaxAuxRows) :
    \E its \in SeqsUpTo(ShapeLib, MaxItems) :
      Entry(MakeTable(contents), its) /\ DocIdle /\ MediaIdle

\* RenderSmartTable called with rows and values that exercise the renderers
InitRender ==
  \E contents \in SeqsUpTo(RenderRowLib, MaxAuxRows) :
    \E its \in SeqsUpTo(RenderItemLib, MaxItems) :
      Entry(MakeTable(contents), its) /\ DocIdle /\ MediaIdle

\* ------------------------------------------------------------------------
\* Actions
\* ------------------------------------------------------------------------
\* rows, classification, header/footer, form library (and the two early returns)
Segment ==
  /\ pc = "start"
  /\ LET inner == stripOuterTable(tableXML)
         rs == extractTableRows(inner)
         trs == ClassifyRows(rs, items)
     IN /\ rows' = rs
        /\ IF rs = <<>>
           THEN /\ err' = TRUE
                /\ pc' = "done"
                /\ UNCHANGED <<tplRows, headerRows, footerRows, templates, result>>
           ELSE /\ tplRows' = trs
                /\ headerRows' = HeaderRows(trs)
                /\ footerRows' = FooterRows(trs)
                /\ templates' = Templates(trs)
                /\ err' = FALSE
                /\ IF Templates(trs) = <<>>
                   THEN /\ result' = <<TableOpeningTag>> \o inner \o <<TableEndingTag>>
                        /\ pc' = "done"
                   ELSE /\ result' = result
                        /\ pc' = "normalize"
  /\ UNCHANGED <<tableXML, items, nitems, binding, assigned, buckets, waitZone, idx,
                 unionFields, outRows>>
  /\ UNCHANGED <<docVars, mediaVars>>

\* the normalize loop and the set-up of matching
Normalize ==
  /\ pc = "normalize"
  /\ LET nits == NormalizeAll(items)
     IN /\ nitems' = nits
        /\ IF nits = <<>>
           THEN /\ outRows' = headerRows \o footerRows
                /\ result' = WrapTable(headerRows \o footerRows)
                /\ pc' = "done"
                /\ UNCHANGED <<assigned, buckets, idx>>
           ELSE /\ assigned' = [n \in DOMAIN nits |-> -2]
                /\ buckets' = [n \in DOMAIN templates |-> <<>>]
                /\ idx' = 1
                /\ pc' = "pass1"
                /\ UNCHANGED <<outRows, result>>
  /\ UNCHANGED <<tableXML, items, rows, tplRows, headerRows, footerRows, templates,
                 binding, waitZone, unionFields, err>>
  /\ UNCHANGED <<docVars, mediaVars>>

\* Routed without the look-up of the group's binding
RoutedNever(it, b) == FALSE

\* an item whose group already has a binding is routed to it
Routed(it, b) == it.groupKey # "" /\ it.groupKey \in DOMAIN b

\* binding with one more group
Bind(b, gk, t) == [n \in DOMAIN b \cup {gk} |-> IF n = gk THEN t ELSE b[n]]

\* one iteration of Pass #1
Pass1Step ==
  /\ pc = "pass1"
  /\ idx <= Len(nitems)
  /\ LET it == nitems[idx]
         m == tryMatch(it, templates)
         wz == IF Routed(it, binding) \/ m.score > 0
               THEN waitZone ELSE Append(waitZone, idx)
     IN /\ IF Routed(it, binding)
           THEN /\ assigned' = [assigned EXCEPT ![idx] = binding[it.groupKey]]
                /\ buckets' = [buckets EXCEPT ![binding[it.groupKey]] = Append(@, idx)]
                /\ UNCHANGED binding
           ELSE IF m.score > 0
           THEN /\ assigned' = [assigned EXCEPT ![idx] = m.tplIdx]
                /\ buckets' = [buckets EXCEPT ![m.tplIdx] = Append(@, idx)]
                /\ binding' = IF it.groupKey # "" THEN Bind(binding, it.groupKey, m.tplIdx)
                              ELSE binding
           ELSE UNCHANGED <<assigned, buckets, binding>>
        /\ waitZone' = wz
        /\ IF idx < Len(nitems) THEN /\ idx' = idx + 1
                                     /\ pc' = "pass1"
           ELSE /\ idx' = 1
                /\ pc' = IF wz = <<>> THEN "pass3" ELSE "pass2"
  /\ UNCHANGED <<tableXML, items, rows, tplRows, headerRows, footerRows, templates, nitems,
                 unionFields, outRows, result, err>>
  /\ UNCHANGED <<docVars, mediaVars>>

\* one iteration of Pass #2
Pass2Step ==
  /\ pc = "pass2"
  /\ idx <= Len(waitZone)
  /\ LET i == waitZone[idx]
         it == nitems[i]
         m == tryMatch(it, templates)
     IN IF Routed(it, binding)
        THEN /\ assigned' = [assigned EXCEPT ![i] = binding[it.groupKey]]
             /\ buckets' = [buckets EXCEPT ![binding[it.groupKey]] = Append(@, i)]
             /\ UNCHANGED binding
        ELSE IF m.score > 0
        THEN /\ assigned' = [assigned EXCEPT ![i] = m.tplIdx]
             /\ buckets' = [buckets EXCEPT ![m.tplIdx] = Append(@, i)]
             /\ binding' = IF it.groupKey # "" THEN Bind(binding, it.groupKey, m.tplIdx)
                           ELSE binding
        ELSE /\ assigned' = [assigned EXCEPT ![i] = -1]
             /\ UNCHANGED <<buckets, binding>>
  /\ IF idx < Len(waitZone) THEN /\ idx' = idx + 1
                                 /\ pc' = "pass2"
     ELSE /\ idx' = 1
          /\ pc' = "pass3"
  /\ UNCHANGED <<tableXML, items, rows, tplRows, headerRows, footerRows, templates, nitems,
                 waitZone, unionFields, outRows, result, err>>
  /\ UNCHANGED <<docVars, mediaVars>>

\* Pass #3: the field unions of the buckets
Pass3 ==
  /\ pc = "pass3"
  /\ unionFields' = [n \in DOMAIN templates |-> UnionOf(templates[n], buckets[n], nitems)]
  /\ pc' = "render"
  /\ UNCHANGED <<tableXML, items, rows, tplRows, headerRows, footerRows, templates, nitems,
                 binding, assigned, buckets, waitZone, idx, outRows, result, err>>
  /\ UNCHANGED <<docVars, mediaVars>>

\* result generation
Render ==
  /\ pc = "render"
  /\ LET out == OutRows(headerRows, footerRows, nitems, assigned, templates, unionFields)
     IN /\ outRows' = out
        /\ result' = WrapTable(out)
  /\ pc' = "done"
  /\ UNCHANGED <<tableXML, items, rows, tplRows, headerRows, footerRows, templates, nitems,
                 binding, assigned, buckets, waitZone, idx, unionFields, err>>
  /\ UNCHANGED <<docVars, mediaVars>>

Next == Segment \/ Normalize \/ Pass1Step \/ Pass2Step \/ Pass3 \/ Render

Spec == Init /\ [][Next]_vars

SpecShapes == InitShapes /\ [][Next]_vars

SpecRender == InitRender /\ [][Next]_vars

\* ------------------------------------------------------------------------
\* RepairTags applied to a body
\* ------------------------------------------------------------------------
\* the state on entry to a document-level function
DocEntry(f, b, tg, c, d) ==
  /\ fn = f
  /\ dpc = "run"
  /\ body0 = b
  /\ body = b
  /\ tag = tg
  /\ replacement = c
  /\ data = d
  /\ ret = <<>>
  /\ iter = 0

InitRepair ==
  \E b \in SeqsUpTo(RepairLex, MaxBodyLen)
            \cup {Join(cs) : cs \in SeqsUpTo(RepairChunks, MaxChunks)} :
    DocEntry("RepairTags", b, <<>>, <<>>, <<>>) /\ TableIdle /\ MediaIdle

\* d.RepairTags(body)
Repair ==
  /\ fn = "RepairTags"
  /\ dpc = "run"
  /\ ret' = RepairTags(body)
  /\ dpc' = "done"
  /\ UNCHANGED <<fn, body0, body, tag, replacement, data, iter>>
  /\ UNCHANGED <<tableVars, mediaVars>>

NextRepair == Repair

SpecRepair == InitRepair /\ [][NextRepair]_vars

\* ------------------------------------------------------------------------
\* ReplaceTagWithParagraph and ProcessUnWrapParagraphTags applied to a body
\* ------------------------------------------------------------------------
InitParagraph ==
  \E ps \in SeqsUpTo(PieceLib, MaxPieces) :
    /\ TableIdle /\ MediaIdle
    /\ \/ \E c \in DOMAIN ContentLib :
            DocEntry("ReplaceTagWithParagraph", Join(ps), StarTag, ContentLib[c], <<>>)
       \/ DocEntry("ProcessUnWrapParagraphTags", Join(ps), <<>>, <<>>, <<>>)

\* ReplaceTagWithParagraph(body, tag, content)
Replace ==
  /\ fn = "ReplaceTagWithParagraph"
  /\ dpc = "run"
  /\ ret' = ReplaceTagWithParagraph(body, tag, replacement)
  /\ dpc' = "done"
  /\ UNCHANGED <<fn, body0, body, tag, replacement, data, iter>>
  /\ UNCHANGED <<tableVars, mediaVars>>

\* one iteration of the loop of ProcessUnWrapParagraphTags (followed for
\* MaxIter iterations). The lexeme "{*}" holds both "{*" and "*}": found as
\* the opening it makes the slice of the name run backwards, which panics.
UnwrapStep ==
  /\ fn = "ProcessUnWrapParagraphTags"
  /\ dpc = "run"
  /\ iter < MaxIter
  /\ LET start == FindIn(body, 1, {"{*", "{*}"})
         end == FindIn(body, start, {"*}", "{*}"})
     IN IF start > Len(body) \/ end > Len(body)
        THEN /\ ret' = body
             /\ dpc' = "done"
             /\ UNCHANGED <<body, tag, replacement, iter>>
        ELSE IF end = start
        THEN /\ dpc' = "panic"
             /\ UNCHANGED <<body, tag, replacement, iter, ret>>
        ELSE LET starTag == SubSeq(body, start, end)
                 name == TrimSpace(SubSeq(body, start + 1, end - 1)
                                   \o (IF body[end] = "{*}" THEN <<"{">> ELSE <<>>))
             IN /\ tag' = starTag
                /\ replacement' = <<"{">> \o name \o <<"}">>
                /\ body' = ReplaceTagWithParagraph(body, starTag, <<"{">> \o name \o <<"}">>)
                /\ iter' = iter + 1
                /\ UNCHANGED <<ret, dpc>>
  /\ UNCHANGED <<fn, body0, data>>
  /\ UNCHANGED <<tableVars, mediaVars>>

NextParagraph == Replace \/ UnwrapStep

SpecParagraph == InitParagraph /\ [][NextParagraph]_vars

\* ------------------------------------------------------------------------
\* ResolveTables applied to a body
\* ------------------------------------------------------------------------
InitTables ==
  \E ps \in SeqsUpTo(TablePieceLib, MaxPieces) : \E d \in DOMAIN DataLib :
    DocEntry("ResolveTables", Join(ps), <<>>, <<>>, DataLib[d]) /\ TableIdle /\ MediaIdle

\* the variables of RenderSmartTable other than its arguments and pc
tableLocals == <<rows, tplRows, headerRows, footerRows, templates, nitems, binding, assigned,
                 buckets, waitZone, idx, unionFields, outRows, result, err>>

\* one iteration of the loop of ResolveTables up to the call of
\* RenderSmartTable (followed for MaxIter iterations)
TablesFind ==
  /\ fn = "ResolveTables"
  /\ dpc = "run"
  /\ iter < MaxIter
  /\ LET r == FindRegion(body)
         closed == ReplaceTagWithParagraph(body, <<closeTag>>, <<>>)
         nits == IF HasData(data, r.name) THEN normalizeItems(data[r.name[1]])
                 ELSE [ok |-> FALSE, items |-> <<>>]
     IN /\ tag' = r.openTag
        /\ IF r.how = "none"
           THEN /\ ret' = body
                /\ dpc' = "done"
                /\ UNCHANGED <<body, iter, tableXML, items, pc>>
           ELSE IF r.how \in {"broken", "open"}
           THEN /\ body' = ReplaceTagWithParagraph(body, r.openTag, <<>>)
                /\ ret' = ReplaceTagWithParagraph(body, r.openTag, <<>>)
                /\ dpc' = "done"
                /\ UNCHANGED <<iter, tableXML, items, pc>>
           ELSE IF r.how = "empty" \/ ~nits.ok
           THEN /\ body' = ReplaceTagWithParagraph(closed, r.openTag, <<>>)
                /\ iter' = iter + 1
                /\ UNCHANGED <<ret, dpc, tableXML, items, pc>>
           ELSE /\ body' = closed
                /\ tableXML' = r.tableXML
                /\ items' = nits.items
                /\ pc' = "start"
                /\ dpc' = "render"
                /\ UNCHANGED <<ret, iter>>
  /\ UNCHANGED <<fn, body0, replacement, data>>
  /\ UNCHANGED <<tableLocals, mediaVars>>

\* the rest of the iteration, once RenderSmartTable has returned
TablesRendered ==
  /\ fn = "ResolveTables"
  /\ dpc = "render"
  /\ pc = "done"
  /\ body' = IF err \/ TrimSpace(result) = <<>>
             THEN ReplaceTagWithParagraph(body, tag, <<>>)
             ELSE ReplaceTagWithParagraph(RemoveFirst(body, tableXML), tag, result)
  /\ replacement' = IF err THEN <<>> ELSE result
  /\ iter' = iter + 1
  /\ dpc' = "run"
  /\ tableXML' = <<>>
  /\ items' = <<>>
  /\ pc' = "idle"
  /\ rows' = <<>>
  /\ tplRows' = <<>>
  /\ headerRows' = <<>>
  /\ footerRows' = <<>>
  /\ templates' = <<>>
  /\ nitems' = <<>>
  /\ binding' = NoBinding
  /\ assigned' = <<>>
  /\ buckets' = <<>>
  /\ waitZone' = <<>>
  /\ idx' = 0
  /\ unionFields' = <<>>
  /\ outRows' = <<>>
  /\ result' = <<>>
  /\ err' = FALSE
  /\ UNCHANGED <<fn, body0, tag, data, ret>>
  /\ UNCHANGED mediaVars

NextTables ==
  TablesFind \/ Segment \/ Normalize \/ Pass1Step \/ Pass2Step \/ Pass3 \/ Render
  \/ TablesRendered

SpecTables == InitTables /\ [][NextTables]_vars

\* ------------------------------------------------------------------------
\* ProcessTrimTags applied to a body
\* ------------------------------------------------------------------------
InitTrim ==
  \E nodes \in SeqsUpTo(NodeLib, MaxNodes) : \E b \in TrimBodies(Run(nodes)) :
    DocEntry("ProcessTrimTags", b, <<>>, <<>>, <<>>) /\ TableIdle /\ MediaIdle

\* one iteration of the loop over the parts; iter is the index i
TrimStep ==
  /\ fn = "ProcessTrimTags"
  /\ dpc = "run"
  /\ iter < Len(SplitParts(body))
  /\ body' = Join([n \in DOMAIN SplitParts(body) |->
                    IF n = iter + 1 THEN TrimPart(SplitParts(body)[n]) ELSE SplitParts(body)[n]])
  /\ iter' = iter + 1
  /\ UNCHANGED <<fn, dpc, body0, tag, replacement, data, ret>>
  /\ UNCHANGED <<tableVars, mediaVars>>

\* the parts are joined and returned
TrimReturn ==
  /\ fn = "ProcessTrimTags"
  /\ dpc = "run"
  /\ iter = Len(SplitParts(body))
  /\ ret' = body
  /\ dpc' = "done"
  /\ UNCHANGED <<fn, body0, body, tag, replacement, data, iter>>
  /\ UNCHANGED <<tableVars, mediaVars>>

NextTrim == TrimStep \/ TrimReturn

SpecTrim == InitTrim /\ [][NextTrim]_vars

\* ------------------------------------------------------------------------
\* TransformTemplate applied to a body, and to its own result
\* ------------------------------------------------------------------------
InitTransform ==
  \E b \in {Join(ps) : ps \in SeqsUpTo(TransformLib, MaxPieces)}
           \cup {ArgMarker(args) : args \in SeqsUpTo(ArgLib, MaxArgs)} :
    DocEntry("TransformTemplate", b, <<>>, <<>>, <<>>) /\ TableIdle /\ MediaIdle

\* TransformTemplate(body0)
Transform ==
  /\ fn = "TransformTemplate"
  /\ dpc = "run"
  /\ ret' = TransformTemplate(body)
  /\ dpc' = "done"
  /\ UNCHANGED <<fn, body0, body, tag, replacement, data, iter>>
  /\ UNCHANGED <<tableVars, mediaVars>>

\* TransformTemplate applied to the result: body keeps the first result
TransformAgain ==
  /\ fn = "TransformTemplate"
  /\ dpc = "done"
  /\ iter = 0
  /\ body' = ret
  /\ ret' = TransformTemplate(ret)
  /\ iter' = 1
  /\ UNCHANGED <<fn, dpc, body0, tag, replacement, data>>
  /\ UNCHANGED <<tableVars, mediaVars>>

NextTransform == Transform \/ TransformAgain

SpecTransform == InitTransform /\ [][NextTransform]_vars

\* ------------------------------------------------------------------------
\* The media pool: two Docx instances that render and save in one process
\* ------------------------------------------------------------------------
\* the parts a document is rendered in (d.activePart)
Parts == {"document", "header1"}

\* the values given to the qrcode and barcode modifiers
MediaValues == {"A"}

\* the map m with the entry k -> v
Put(m, k, v) == [n \in DOMAIN m \cup {k} |-> IF n = k THEN v ELSE m[n]]

\* sharedMedia.AddAll: every entry of from is written over the pool m
AddAll(m, from) ==
  [n \in DOMAIN m \cup DOMAIN from |-> IF n \in DOMAIN from THEN from[n] ELSE m[n]]

\* sha1.Sum: the digest of the image bytes
sha1Sum(bytes) == <<"sha1">> \o bytes

\* AddImageRel and SetFile: the image goes to the local media of the
\* document under the name word/media/<part>_<digest>.png
AddImageRel(local, part, bytes) == Put(local, <<"word/media/", part, sha1Sum(bytes)>>, bytes)

\* the part a media file of the pool is attributed to by its name
PartOfMedia(name) == IF name[2] \in {"header1"} THEN name[2] ELSE "document"

\* the media files among the names of a map
MediaOf(m) == {n \in DOMAIN m : n[1] = "word/media/"}

\* updateMediaRelationships for every part of mediaByPart: the part's
\* relationships file gets one relationship per media file of the pool
WithRelationships(fs, pool) ==
  LET partsSeen == {PartOfMedia(n) : n \in DOMAIN pool}
      relsPath(p) == <<"word/_rels/", p>>
      old(p) == IF relsPath(p) \in DOMAIN fs THEN fs[relsPath(p)] ELSE {}
  IN [n \in DOMAIN fs \cup {relsPath(p) : p \in partsSeen} |->
        IF \E p \in partsSeen : n = relsPath(p)
        THEN LET p == CHOOSE q \in partsSeen : n = relsPath(q)
             IN old(p) \cup {<<"rId_", m[2], m[3]>> : m \in {m \in DOMAIN pool : PartOfMedia(m) = p}}
        ELSE fs[n]]

\* steps 1 and 2 of Save and SaveToWriter: every file of the pool is copied
\* into d.files, then the relationships are updated
Collected(fs, pool) == WithRelationships(AddAll(fs, pool), pool)

\* Open: the files of the template, no local media; the pool is the one of
\* the process, empty when the process starts
InitMedia ==
  /\ globalMedia = NoFiles
  /\ localMedia = [d \in Docs |-> NoFiles]
  /\ files = [d \in Docs |-> Put(NoFiles, <<"word/document.xml">>, <<"xml">>)]
  /\ archive = [d \in Docs |-> [by |-> "none", entries |-> NoFiles]]
  /\ DocIdle
  /\ TableIdle

\* the qrcode modifier registered by ImportBuiltins for document d: the
\* image of the value goes to the local media, then the local media go to
\* the pool
Qrcode ==
  \E d \in Docs : \E part \in Parts : \E value \in MediaValues :
    LET local == AddImageRel(localMedia[d], part, <<"qr", value>>)
    IN /\ Cardinality(DOMAIN local) <= MaxMedia
       /\ localMedia' = [localMedia EXCEPT ![d] = local]
       /\ globalMedia' = AddAll(globalMedia, local)
       /\ UNCHANGED <<files, archive>>
       /\ UNCHANGED <<docVars, tableVars>>

\* the barcode modifier registered by ImportBuiltins for document d
Barcode ==
  \E d \in Docs : \E part \in Parts : \E value \in MediaValues :
    LET local == AddImageRel(localMedia[d], part, <<"bar", value>>)
    IN /\ Cardinality(DOMAIN local) <= MaxMedia
       /\ localMedia' = [localMedia EXCEPT ![d] = local]
       /\ globalMedia' = AddAll(globalMedia, local)
       /\ UNCHANGED <<files, archive>>
       /\ UNCHANGED <<docVars, tableVars>>

\* d.Save(path)
Save ==
  \E d \in Docs :
    /\ files' = [files EXCEPT ![d] = Collected(files[d], globalMedia)]
    /\ archive' = [archive EXCEPT ![d] = [by |-> "Save", entries |-> files'[d]]]
    /\ UNCHANGED <<globalMedia, localMedia>>
    /\ UNCHANGED <<docVars, tableVars>>

\* d.SaveToWriter(w)
SaveToWriter ==
  \E d \in Docs :
    /\ files' = [files EXCEPT ![d] = Collected(files[d], globalMedia)]
    /\ archive' = [archive EXCEPT ![d] = [by |-> "SaveToWriter", entries |-> files'[d]]]
    /\ UNCHANGED <<globalMedia, localMedia>>
    /\ UNCHANGED <<docVars, tableVars>>

NextMedia == Qrcode \/ Barcode \/ Save \/ SaveToWriter

SpecMedia == InitMedia /\ [][NextMedia]_vars

\* ------------------------------------------------------------------------
\* Properties
\* ------------------------------------------------------------------------
\* the positions of the Form rows of the table
FormPos == {n \in DOMAIN tplRows : tplRows[n].isNamed \/ tplRows[n].isPos}

FirstForm == CHOOSE n \in FormPos : \A q \in FormPos : n <= q

LastForm == CHOOSE n \in FormPos : \A q \in FormPos : q <= n

\* the indices of the items that are not skipped, in arrival order
BoundIdx == SelectSeq([n \in DOMAIN nitems |-> n], LAMBDA n : assigned[n] >= 1)

\* the rows of the returned markup
OutputRows == extractTableRows(stripOuterTable(result))

\* number of positions of seq that hold e
Count(seq, e) == Cardinality({n \in DOMAIN seq : seq[n] = e})

\* C1: with at least one Form row the output is the rows before the first Form
\* row, then one row per non-skipped item in arrival order, rendered from the
\* Form the item is bound to, then the rows after the last Form row.
C1_HeaderItemsFooter ==
  (pc = "done" /\ FormPos # {}) =>
    /\ Len(outRows) = (FirstForm - 1) + Len(BoundIdx) + (Len(rows) - LastForm)
    /\ \A n \in 1..(FirstForm - 1) : outRows[n] = rows[n]
    /\ \A n \in DOMAIN BoundIdx :
         outRows[FirstForm - 1 + n] =
           RenderItem(nitems[BoundIdx[n]], templates[assigned[BoundIdx[n]]],
                      unionFields[assigned[BoundIdx[n]]])
    /\ \A n \in 1..(Len(rows) - LastForm) :
         outRows[FirstForm - 1 + Len(BoundIdx) + n] = rows[LastForm + n]
    /\ result = WrapTable(outRows)

\* C1 witness: a header, a footer, and an item bound only in pass 2
C1_Witness ==
  /\ pc = "done"
  /\ FormPos # {}
  /\ FirstForm > 1
  /\ LastForm < Len(rows)
  /\ waitZone # <<>>
  /\ assigned[waitZone[1]] >= 1

\* C2: the three segments partition the rows of a table that has a Form row:
\* len(Header) + len(Forms) + len(Footer) = len(rows).
C2_SegmentsPartitionRows ==
  (pc # "start" /\ ~err /\ templates # <<>>) =>
    Len(headerRows) + Len(templates) + Len(footerRows) = Len(rows)

\* a row without placeholder whose names are fields of no Map item
UnmatchedRow(r) ==
  /\ parseTplMeta(r).percentSeen = 0
  /\ \A n \in DOMAIN parseTplMeta(r).names : \A q \in DOMAIN items :
       normalizeItem(items[q]).kind = "map" =>
         parseTplMeta(r).names[n] \notin DOMAIN normalizeItem(items[q]).mapVal

\* C3: a row without placeholder whose names no Map item supplies is in the
\* output unchanged, as many times as it is in the table, wherever it stands.
C3_StaticRowKeptOnce ==
  (pc = "done" /\ ~err) =>
    \A n \in DOMAIN rows :
      UnmatchedRow(rows[n]) => Count(OutputRows, rows[n]) = Count(rows, rows[n])

\* C4: every Slice item that is not skipped is bound to a Positional Form.
C4_SliceBoundToPositional ==
  pc = "done" =>
    \A n \in DOMAIN nitems :
      (nitems[n].kind = "slice" /\ assigned[n] >= 1) => templates[assigned[n]].isPos

\* C5: a bound Map item is bound to a Named Form, and one of the Form's names
\* is a field of the item or the item's group has a binding.
C5_MapBoundToNamed ==
  pc = "done" =>
    \A n \in DOMAIN nitems :
      (nitems[n].kind = "map" /\ assigned[n] >= 1) =>
        /\ templates[assigned[n]].isNamed
        /\ \/ \E q \in DOMAIN templates[assigned[n]].meta.names :
                templates[assigned[n]].meta.names[q] \in DOMAIN nitems[n].mapVal
           \/ (nitems[n].groupKey # "" /\ nitems[n].groupKey \in DOMAIN binding)

\* the first item of group gk that matches a Form by score
FirstScoring(gk) ==
  CHOOSE n \in DOMAIN nitems :
    /\ nitems[n].groupKey = gk
    /\ tryMatch(nitems[n], templates).score > 0
    /\ \A q \in 1..(n - 1) :
         nitems[q].groupKey = gk => tryMatch(nitems[q], templates).score <= 0

\* C6: a group's binding is the Form chosen by score for the first item of the
\* group that matched, at every moment it is recorded (so it never changes),
\* and every bound item of a group is bound to its group's Form.
C6_GroupBoundToOneForm ==
  /\ \A gk \in DOMAIN binding :
       /\ \E n \in DOMAIN nitems :
            nitems[n].groupKey = gk /\ tryMatch(nitems[n], templates).score > 0
       /\ binding[gk] = tryMatch(nitems[FirstScoring(gk)], templates).tplIdx
  /\ \A n \in DOMAIN assigned :
       (assigned[n] >= 1 /\ nitems[n].groupKey # "") =>
         /\ nitems[n].groupKey \in DOMAIN binding
         /\ assigned[n] = binding[nitems[n].groupKey]

\* C6 witness: an item routed to its group's Form although its own best Form
\* is another one or none
C6_Witness ==
  /\ pc = "done"
  /\ \E n \in DOMAIN nitems :
       /\ assigned[n] >= 1
       /\ nitems[n].groupKey # ""
       /\ tryMatch(nitems[n], templates).tplIdx # assigned[n]

\* the output row of the bound item n
RowOut(n) ==
  outRows[Len(headerRows) + Cardinality({q \in 1..n : assigned[q] >= 1})]

\* the fields of the items bound to the same Form as item n
BucketFields(n) ==
  UNION {DOMAIN nitems[q].mapVal : q \in {q \in DOMAIN nitems : assigned[q] = assigned[n]}}

\* a table row with the given content
AsRow(content) == <<TableRowOpeningTag>> \o content \o <<TableRowClosingTag>>

\* what C7 says a plain marker {name} becomes for item n
PlainMarker(name, n) ==
  IF name \in DOMAIN nitems[n].mapVal THEN Sprint(nitems[n].mapVal[name])
  ELSE IF name \in BucketFields(n) THEN <<>>
  ELSE <<"{", name, "}">>

\* what C7 says a piped marker {name|mod} becomes for item n
PipedMarker(name, mod, n) ==
  IF name \in DOMAIN nitems[n].mapVal
  THEN <<"{", " ", Backtick>> \o Sprint(nitems[n].mapVal[name])
       \o <<Backtick, " ", "|", " ">> \o mod \o <<" ", "}">>
  ELSE IF name \in BucketFields(n)
  THEN <<"{", " ", Backtick, Backtick, " ", "|", " ">> \o mod \o <<" ", "}">>
  ELSE <<"{", name, "|">> \o mod \o <<"}">>

\* C7: in the row of a Map item bound to the Named Form {a}{b|m}{x} each
\* marker is the item's value, else empty if the name is a field of an item of
\* the Form's bucket, else the marker as written; the piped marker carries a
\* backtick literal and the same modifier.
C7_NamedPrecedence ==
  pc = "done" =>
    \A n \in DOMAIN nitems :
      (nitems[n].kind = "map" /\ assigned[n] >= 1
         /\ templates[assigned[n]].xml = AsRow(RowABX)) =>
        RowOut(n) = AsRow(PlainMarker("a", n) \o PipedMarker("b", <<"m">>, n)
                          \o PlainMarker("x", n))

Min(p, q) == IF p <= q THEN p ELSE q

\* number of lexemes of a row that are values A or B
ValueCount(r) == Cardinality({n \in DOMAIN r : r[n] \in {"A", "B"}})

At(vals, i) == IF i \in DOMAIN vals THEN Sprint(vals[i]) ELSE <<>>

\* a substituted text scanned for placeholders once more
Again(t, vals) == IF t = TxtPerc.v THEN At(vals, 2) ELSE t

\* the row a Positional Form becomes for the values vals
PositionalRow(xml, vals) ==
  CASE xml = AsRow(RowP2) -> AsRow(At(vals, 1) \o At(vals, 2))
    [] xml = AsRow(RowGap) -> AsRow(At(vals, 2))
    [] xml = AsRow(RowP1) ->
         AsRow(<<"{", " ", Backtick>> \o Again(At(vals, 1), vals)
               \o <<Backtick, " ", "|", " ", "m", " ", "}">>)

MapItemFields ==
  UNION {DOMAIN normalizeItem(items[q]).mapVal :
           q \in {q \in DOMAIN items : normalizeItem(items[q]).kind = "map"}}

\* C9: a row is Positional iff it has a placeholder, else Named iff one of its
\* names is a field of a Map item, else Static; the locally known names are the
\* fields of all Map items.
C9_Classification ==
  (pc # "start" /\ ~err) =>
    /\ collectLocalKeys(items) = MapItemFields
    /\ \A n \in DOMAIN tplRows :
         LET m == parseTplMeta(rows[n])
             named == m.percentSeen = 0
                      /\ \E q \in DOMAIN m.names : m.names[q] \in MapItemFields
         IN /\ tplRows[n].isPos = (m.percentSeen > 0)
            /\ tplRows[n].isNamed = named
            /\ tplRows[n].isStatic = (m.percentSeen = 0 /\ ~named)

\* a normalized item
Norm(raw, kind, gk, fields, values) ==
  [raw |-> raw, groupKey |-> gk, kind |-> kind, mapVal |-> fields, sliceVal |-> values]

Fields(val) == IF val.k = "smap" THEN ToAnyMap(val.v) ELSE val.v

Values(val) == IF val.k = "slist" THEN ToAnyList(val.v) ELSE val.v

IsMapVal(val) == val.k \in {"map", "smap"}

IsListVal(val) == val.k \in {"list", "slist"}

Label(val) == CHOOSE n \in DOMAIN val.v : TRUE

IsLabelled(val) == val.k = "map" /\ Cardinality(DOMAIN val.v) = 1

\* normalization as C10 states it
NormClaimed(val) ==
  IF IsLabelled(val) /\ IsMapVal(val.v[Label(val)])
    THEN Norm(val, "map", Label(val), Fields(val.v[Label(val)]), <<>>)
  ELSE IF IsLabelled(val) /\ IsListVal(val.v[Label(val)])
    THEN Norm(val, "slice", Label(val), NilMap, Values(val.v[Label(val)]))
  ELSE IF val.k = "map"
          /\ \A n \in DOMAIN val.v : ~IsMapVal(val.v[n]) /\ ~IsListVal(val.v[n])
    THEN Norm(val, "map", "", val.v, <<>>)
  ELSE Norm(val, "other", "", NilMap, <<>>)

\* normalization as amended: a bare list is a Slice item, and a map is a Map
\* item unless one of its values is a list
NormAmended(val) ==
  IF IsLabelled(val) /\ IsMapVal(val.v[Label(val)])
    THEN Norm(val, "map", Label(val), Fields(val.v[Label(val)]), <<>>)
  ELSE IF IsLabelled(val) /\ IsListVal(val.v[Label(val)])
    THEN Norm(val, "slice", Label(val), NilMap, Values(val.v[Label(val)]))
  ELSE IF val.k = "map" /\ \A n \in DOMAIN val.v : ~IsListVal(val.v[n])
    THEN Norm(val, "map", "", val.v, <<>>)
  ELSE IF IsListVal(val)
    THEN Norm(val, "slice", "", NilMap, Values(val))
  ELSE Norm(val, "other", "", NilMap, <<>>)

NotOther(ni) == ni.kind # "other"

\* C10 as claimed: bare lists and maps with nested collection values are Other.
C10_NormalizationClaimed ==
  (pc \notin {"start", "normalize"} /\ templates # <<>>) =>
    nitems = SelectSeq([n \in DOMAIN items |-> NormClaimed(items[n])], NotOther)

\* C10 amended: {label:{...}} is a Map item and {label:[...]} a Slice item with
\* groupKey label; any other map without a list value is a Map item and a bare
\* list a Slice item, both without groupKey; every other shape is Other, is
\* left out of the items and gives no row.
C10_Normalization ==
  (pc \notin {"start", "normalize"} /\ templates # <<>>) =>
    /\ nitems = SelectSeq([n \in DOMAIN items |-> NormAmended(items[n])], NotOther)
    /\ pc = "done" => Len(outRows) <= Len(headerRows) + Len(footerRows) + Len(nitems)

\* C10 witness: a bare list kept as a Slice item while another item is dropped
C10_Witness ==
  /\ pc = "done"
  /\ templates # <<>>
  /\ Len(nitems) < Len(items)
  /\ \E n \in DOMAIN nitems :
       /\ nitems[n].raw.k \in {"list", "slist"}
       /\ nitems[n].kind = "slice"
       /\ assigned[n] >= 1

\* an item that scores on no Form
NoScore(n) == \A t \in DOMAIN templates : Score(nitems[n], templates[t]) <= 0

\* an item that scores on no Form and whose group (if any) has no binding:
\* none is recorded, or no item of the group scores on a Form
Unmatched(n) ==
  /\ NoScore(n)
  /\ \/ ~(nitems[n].groupKey # "" /\ nitems[n].groupKey \in DOMAIN binding)
     \/ \A q \in DOMAIN nitems : nitems[q].groupKey = nitems[n].groupKey => NoScore(q)

\* the items with the content of every skipped item emptied
Blanked ==
  [n \in DOMAIN nitems |->
     IF assigned[n] = -1
     THEN [nitems[n] EXCEPT !.mapVal = NilMap, !.sliceVal = <<>>]
     ELSE nitems[n]]

\* C11: once matching is over every item is bound to a Form of the library or
\* marked skip, none is left waiting; an item that scores on no Form and whose
\* group has no binding is skipped, is in no bucket, gives no row, the result
\* does not depend on its content, and no error is returned.
C11_BoundOrSkipped ==
  (pc \in {"pass3", "render", "done"} /\ nitems # <<>>) =>
    /\ \A n \in DOMAIN nitems : assigned[n] \in (1..Len(templates)) \cup {-1}
    /\ \A n \in DOMAIN nitems :
         Unmatched(n) =>
           /\ assigned[n] = -1
           /\ \A t \in DOMAIN buckets : \A q \in DOMAIN buckets[t] : buckets[t][q] # n
    /\ ~err
    /\ pc = "done" =>
         /\ Len(outRows) = Len(headerRows) + Len(BoundIdx) + Len(footerRows)
         /\ result =
              WrapTable(OutRows(headerRows, footerRows, Blanked, assigned, templates,
                                [t \in DOMAIN templates |->
                                   UnionOf(templates[t], buckets[t], Blanked)]))

\* C11 witness: a finished run in which one item is skipped and another one
\* gave a row
C11_Witness ==
  /\ pc = "done"
  /\ ~err
  /\ \E n \in DOMAIN nitems : Unmatched(n) /\ assigned[n] = -1
  /\ \E n \in DOMAIN nitems : assigned[n] >= 1

\* ------------------------------------------------------------------------
\* Properties of RepairTags
\* ------------------------------------------------------------------------
\* the closing delimiter of an opening one
Closer(c) == IF c = "{" THEN "}" ELSE "]"

\* the lexemes that start a formatting-boundary token
TokenStart ==
  {"<w:t>", "</w:t>", "<w:r>", "</w:r>", "<w:rPr>", "</w:rPr>", "<w:p>", "<w:t"}

\* the last lexeme of the formatting-boundary token that starts at k, the one
\* with its ">"; 0 when k starts no token or the token is cut off
TokenEnd(b, k) ==
  IF b[k] \in TokenStart /\ \E j \in k..Len(b) : b[j] \in HasGt
  THEN CHOOSE j \in k..Len(b) : b[j] \in HasGt /\ \A q \in k..(j - 1) : b[q] \notin HasGt
  ELSE 0

\* the closing delimiter c of a marker, looked for from k on outside tokens;
\* 0 when there is none
RECURSIVE MarkerEnd(_, _, _)
MarkerEnd(b, k, c) ==
  IF k > Len(b) THEN 0
  ELSE IF TokenEnd(b, k) # 0 THEN MarkerEnd(b, TokenEnd(b, k) + 1, c)
  ELSE IF b[k] = c THEN k
  ELSE MarkerEnd(b, k + 1, c)

\* the complete markers from k on, as <<opening, closing>> positions, up to
\* the first marker that is never closed
RECURSIVE Markers(_, _)
Markers(b, k) ==
  IF k > Len(b) THEN {}
  ELSE IF b[k] \in {"{", "["}
    THEN LET e == MarkerEnd(b, k + 1, Closer(b[k]))
         IN IF e = 0 THEN {} ELSE {<<k, e>>} \cup Markers(b, e + 1)
  ELSE Markers(b, k + 1)

\* the opening delimiter of the first marker from k on that is never closed;
\* 0 when every marker is closed
RECURSIVE Unterminated(_, _)
Unterminated(b, k) ==
  IF k > Len(b) THEN 0
  ELSE IF b[k] \in {"{", "["}
    THEN LET e == MarkerEnd(b, k + 1, Closer(b[k]))
         IN IF e = 0 THEN k ELSE Unterminated(b, e + 1)
  ELSE Unterminated(b, k + 1)

\* the positions of the tokens that lie inside complete markers
InMarkerTokens(b) ==
  {j \in DOMAIN b :
     \E m \in Markers(b, 1) : \E k \in (m[1] + 1)..(m[2] - 1) :
       TokenEnd(b, k) # 0 /\ k <= j /\ j <= TokenEnd(b, k)}

\* the positions inside complete markers, delimiters included
InMarkers(b) == {j \in DOMAIN b : \E m \in Markers(b, 1) : m[1] <= j /\ j <= m[2]}

\* b without the positions of D
Without(b, D) ==
  LET ix == SelectSeq([n \in DOMAIN b |-> n], LAMBDA n : n \notin D)
  IN [n \in DOMAIN ix |-> b[ix[n]]]

\* b with every token inside a complete marker taken out
Reassembled(b) == Without(b, InMarkerTokens(b))

IsPrefix(p, t) == Len(p) <= Len(t) /\ SubSeq(t, 1, Len(p)) = p

\* C13: for every marker, curly or square, whose two delimiters are present,
\* the output up to the closing delimiter is the input up to it with the
\* formatting-boundary tokens between the delimiters of the markers taken out
\* and every other lexeme kept in order.
C13_MarkerReassembled ==
  (fn = "RepairTags" /\ dpc = "done") =>
    \A m \in Markers(body0, 1) :
      IsPrefix(Reassembled(SubSeq(body0, 1, m[2])), ret)

\* C13 witness: a curly and a square marker, each cut by a token, repaired in
\* one body
C13_Witness ==
  /\ fn = "RepairTags"
  /\ dpc = "done"
  /\ ret # body0
  /\ \E m \in Markers(body0, 1) : \E n \in Markers(body0, 1) :
       /\ body0[m[1]] = "{"
       /\ body0[n[1]] = "["
       /\ \E j \in InMarkerTokens(body0) : m[1] < j /\ j < m[2]
       /\ \E j \in InMarkerTokens(body0) : n[1] < j /\ j < n[2]

\* C14: the lexemes outside the markers are copied in order, a body in which no
\* marker holds a formatting-boundary token is returned as it is, and the
\* output has as many markers as the input.
C14_NonMarkerContentKept ==
  (fn = "RepairTags" /\ dpc = "done") =>
    /\ InMarkerTokens(body0) = {} => ret = body0
    /\ Without(ret, InMarkers(ret)) = Without(body0, InMarkers(body0))
    /\ Cardinality(Markers(ret, 1)) = Cardinality(Markers(body0, 1))

\* C15: when a marker is opened and never closed, the output is the repaired
\* text before its opening delimiter followed by the rest of the input as it
\* is; when a token inside a marker is cut off before its ">", the input from
\* the token on is the end of the output.
C15_FailOpen ==
  (fn = "RepairTags" /\ dpc = "done") =>
    /\ Unterminated(body0, 1) # 0 =>
         ret = Reassembled(SubSeq(body0, 1, Unterminated(body0, 1) - 1))
               \o SubSeq(body0, Unterminated(body0, 1), Len(body0))
    /\ \A k \in DOMAIN body0 :
         (body0[k] \in TokenStart /\ TokenEnd(body0, k) = 0) =>
           /\ Len(ret) >= Len(body0) - k + 1
           /\ SubSeq(ret, Len(ret) - (Len(body0) - k), Len(ret))
                = SubSeq(body0, k, Len(body0))

\* the element of an opening tag, "" for every other lexeme
OpensElem(c) ==
  IF c = "<w:p>" THEN "p" ELSE IF c = "<w:r>" THEN "r"
  ELSE IF c = "<w:t>" THEN "t" ELSE IF c = "<w:rPr>" THEN "rPr" ELSE ""

\* the element of a closing tag, "" for every other lexeme
ClosesElem(c) ==
  IF c = "</w:p>" THEN "p" ELSE IF c = "</w:r>" THEN "r"
  ELSE IF c = "</w:t>" THEN "t" ELSE IF c = "</w:rPr>" THEN "rPr" ELSE ""

\* b from k on is markup whose open elements are those of stack, the last
\* opened on top: every closing tag closes the element on top, no tag is cut
\* off, and nothing stays open at the end
RECURSIVE Nested(_, _, _)
Nested(b, k, stack) ==
  IF k > Len(b) THEN stack = <<>>
  ELSE IF b[k] \in {"<w:t", ">"} THEN FALSE
  ELSE IF OpensElem(b[k]) # "" THEN Nested(b, k + 1, <<OpensElem(b[k])>> \o stack)
  ELSE IF ClosesElem(b[k]) # ""
    THEN /\ stack # <<>>
         /\ Head(stack) = ClosesElem(b[k])
         /\ Nested(b, k + 1, Tail(stack))
  ELSE Nested(b, k + 1, stack)

WellFormed(b) == Nested(b, 1, <<>>)

\* b has as many opening as closing tags of every element
Balanced(b) ==
  \A e \in {"p", "r", "t", "rPr"} :
    Cardinality({k \in DOMAIN b : OpensElem(b[k]) = e})
      = Cardinality({k \in DOMAIN b : ClosesElem(b[k]) = e})

\* C27: of a well-formed body, RepairTags returns a body that has as many
\* opening as closing tags of every element and is well-formed.
C27_WellFormednessKept ==
  (fn = "RepairTags" /\ dpc = "done" /\ WellFormed(body0)) =>
    Balanced(ret) /\ WellFormed(ret)

\* ------------------------------------------------------------------------
\* Properties of ReplaceTagWithParagraph and ProcessUnWrapParagraphTags
\* ------------------------------------------------------------------------
\* the text an XML text stands for: an entity lexeme is its character
Decode(t) ==
  [n \in DOMAIN t |-> IF t[n] = "&amp;" THEN "&" ELSE IF t[n] = "&quot;" THEN "\"" ELSE t[n]]

\* a paragraph that holds the trimmed text t, nothing when that is empty
Holding(t) ==
  IF TrimSpace(t) = <<>> THEN <<>>
  ELSE PreservedOpening \o TrimSpace(t) \o <<"</w:t>", "</w:r>", "</w:p>">>

\* what takes the place of the paragraph p: the replacement alone when the
\* trimmed text of p is the marker, up to three pieces when the marker shares
\* p with other text, p itself when its text does not hold the marker
Pieces(p, tg, c) ==
  LET text == extractParagraphText(p)
      at == IndexSeq(text, tg, 1)
  IN IF at = 0 THEN p
     ELSE IF TrimSpace(text) = tg THEN c
     ELSE Holding(SubSeq(text, 1, at - 1)) \o c
          \o Holding(SubSeq(text, at + Len(tg), Len(text)))

\* b from pos on with every paragraph replaced by its pieces
RECURSIVE Rewritten(_, _, _, _)
Rewritten(b, pos, tg, c) ==
  LET start == FindLex(b, pos, ParagraphOpeningTag)
      end == FindLex(b, start, ParagraphClosingTag)
  IN IF start > Len(b) \/ end > Len(b) THEN SubSeq(b, pos, Len(b))
     ELSE SubSeq(b, pos, start - 1) \o Pieces(SubSeq(b, start, end), tg, c)
          \o Rewritten(b, end + 1, tg, c)

\* some paragraph of b from pos on holds the marker together with other text
RECURSIVE HasShared(_, _, _)
HasShared(b, pos, tg) ==
  LET start == FindLex(b, pos, ParagraphOpeningTag)
      end == FindLex(b, start, ParagraphClosingTag)
      text == extractParagraphText(SubSeq(b, start, end))
  IN IF start > Len(b) \/ end > Len(b) THEN FALSE
     ELSE (IndexSeq(text, tg, 1) # 0 /\ TrimSpace(text) # tg) \/ HasShared(b, end + 1, tg)

\* some paragraph of b from pos on holds nothing but the marker
RECURSIVE HasSole(_, _, _)
HasSole(b, pos, tg) ==
  LET start == FindLex(b, pos, ParagraphOpeningTag)
      end == FindLex(b, start, ParagraphClosingTag)
  IN IF start > Len(b) \/ end > Len(b) THEN FALSE
     ELSE TrimSpace(extractParagraphText(SubSeq(b, start, end))) = tg
          \/ HasSole(b, end + 1, tg)

\* number of star marker openings in b
StarCount(b) == Cardinality({n \in DOMAIN b : b[n] \in {"{*", "{*}"}})

\* C16: the loop of ProcessUnWrapParagraphTags ends: every iteration that does
\* not return removes the marker it found, so the loop takes no more
\* iterations than the body has markers, and it does not panic.
C16_LoopsTerminate ==
  fn = "ProcessUnWrapParagraphTags" =>
    /\ dpc # "panic"
    /\ iter <= StarCount(body0)

C18_SharedParagraphSplit ==
  (fn = "ReplaceTagWithParagraph" /\ dpc = "done") =>
    Decode(ret) = Decode(Rewritten(body0, 1, tag, replacement))

\* ------------------------------------------------------------------------
\* Properties of ResolveTables
\* ------------------------------------------------------------------------
\* the data have no dataset, or none that is a list
Unusable(d) == \A name \in DOMAIN d : d[name].k # "list"

\* no table of b has a row
NoRows(b) == \A n \in DOMAIN b : b[n] # "<w:tr>"

\* b without the paragraphs that hold only a table marker
MarkersStripped(b) ==
  Rewritten(Rewritten(Rewritten(b, 1, <<closeTag>>, <<>>), 1, OpenTag, <<>>),
            1, <<"[table/", "z", "]">>, <<>>)

RunsOf(part) == Unmarshal(wrapTabsBreaksInParagraph(<<ParagraphOpeningTag>> \o part))

\* the text holds a decoration token
Decorated(t) == \E n \in DOMAIN t : t[n] \in {"{~", "{-", "~}", "-}"}

\* the strength a marker node has on its left: "~", "-" or none
Lead(t) ==
  IF \E n \in DOMAIN t : t[n] = "{~" THEN "~"
  ELSE IF \E n \in DOMAIN t : t[n] = "{-" THEN "-"
  ELSE "none"

\* the strength a marker node has on its right
Trail(t) ==
  IF \E n \in DOMAIN t : t[n] = "~}" THEN "~"
  ELSE IF \E n \in DOMAIN t : t[n] = "-}" THEN "-"
  ELSE "none"

\* a side of strength d removes a node of text t: the weak one a node of
\* spaces and tabs only, the strong one a node of spaces, tabs and line feeds
Eats(d, t) ==
  \/ d = "-" /\ \A n \in DOMAIN t : t[n] \in {" ", "\t"}
  \/ d = "~" /\ \A n \in DOMAIN t : t[n] \in {" ", "\t", "\n"}

\* the node j of the run r is within the reach of a marker node m of r:
\* every node from j to the neighbour of m is eaten by the side of m it is on
InReach(r, j) ==
  \E m \in DOMAIN r :
    \/ j < m /\ \A k \in j..(m - 1) : Eats(Lead(r[m]), r[k])
    \/ m < j /\ \A k \in (m + 1)..j : Eats(Trail(r[m]), r[k])

\* the node j of the run r is a whitespace node next to, or separated by
\* whitespace nodes only from, a marker node decorated on the side of j
Facing(r, j) ==
  \E m \in DOMAIN r :
    \/ j < m /\ Lead(r[m]) # "none" /\ \A k \in j..(m - 1) : Eats("~", r[k])
    \/ m < j /\ Trail(r[m]) # "none" /\ \A k \in (m + 1)..j : Eats("~", r[k])

\* the text without its decorations
Undecorated(t) ==
  [n \in DOMAIN t |-> IF t[n] \in {"{~", "{-"} THEN "{"
                      ELSE IF t[n] \in {"~}", "-}"} THEN "}"
                      ELSE t[n]]

\* the nodes of r whose index is in K, from i on, their decorations stripped
RECURSIVE Kept(_, _, _)
Kept(r, K, i) ==
  IF i > Len(r) THEN <<>>
  ELSE (IF i \in K THEN <<Undecorated(r[i])>> ELSE <<>>) \o Kept(r, K, i + 1)

\* the parts of the argument and of the result of ProcessTrimTags
PartsIn == SplitParts(body0)

PartsOut == SplitParts(ret)

\* C19: in every paragraph the result has the runs of the argument, each
\* without some nodes of its own that are within the reach of a marker node
\* of the same run (a weak side reaches over nodes of spaces and tabs only,
\* a strong side over nodes of spaces, tabs and line feeds, no side over a
\* node with another character), and no decoration token is left in it.
C19_TrimStrengths ==
  (fn = "ProcessTrimTags" /\ dpc = "done") =>
    /\ Len(PartsOut) = Len(PartsIn)
    /\ \A i \in DOMAIN PartsIn :
         /\ ~Decorated(PartsOut[i])
         /\ RunsOf(PartsIn[i]).ok =>
              /\ RunsOf(PartsOut[i]).ok
              /\ Len(RunsOf(PartsOut[i]).runs) = Len(RunsOf(PartsIn[i]).runs)
              /\ \A n \in DOMAIN RunsOf(PartsIn[i]).runs :
                   LET r == RunsOf(PartsIn[i]).runs[n]
                   IN \E K \in SUBSET DOMAIN r :
                        /\ RunsOf(PartsOut[i]).runs[n] = Kept(r, K, 1)
                        /\ \A j \in DOMAIN r \ K : InReach(r, j)

WeakThenBreak(r) ==
  /\ Len(r) >= 2
  /\ Lead(r[1]) = "none"
  /\ Trail(r[1]) = "-"
  /\ r[2] = <<"\n">>
  /\ \A k \in 3..Len(r) : ~Decorated(r[k])

RECURSIVE LexArgs(_, _)
LexArgs(rest, i) ==
  IF i > Len(rest) THEN [ok |-> TRUE, args |-> <<>>]
  ELSE IF rest[i] # " " \/ i = Len(rest) THEN [ok |-> FALSE, args |-> <<>>]
  ELSE IF rest[i + 1] = "\""
    THEN LET e == FindLex(rest, i + 2, "\"")
             more == LexArgs(rest, e + 1)
         IN IF e > Len(rest) THEN [ok |-> FALSE, args |-> <<>>]
            ELSE [ok |-> more.ok,
                  args |-> <<[k |-> "string", v |-> SubSeq(rest, i + 2, e - 1)]>> \o more.args]
  ELSE LET e == FindLex(rest, i + 1, " ")
           more == LexArgs(rest, e)
       IN IF \E n \in (i + 1)..(e - 1) : rest[n] \notin DigitLex
          THEN [ok |-> FALSE, args |-> <<>>]
          ELSE [ok |-> more.ok,
                args |-> <<[k |-> "number", v |-> SubSeq(rest, i + 1, e - 1)]>> \o more.args]

\* the arguments of the call {.a | m ...}
CallArgs(call) ==
  IF Len(call) >= 8 /\ SubSeq(call, 1, 7) = <<"{", ".", "a", " ", "|", " ", "m">>
     /\ call[Len(call)] = "}"
  THEN LexArgs(SubSeq(call, 8, Len(call) - 1), 1)
  ELSE [ok |-> FALSE, args |-> <<>>]

\* what an argument token of a marker stands for: the text of a backquoted
\* literal as a string, a run of digits as a number, anything else as a string
Meant(arg) ==
  IF Head(arg) = Backtick THEN [k |-> "string", v |-> SubSeq(arg, 2, Len(arg) - 1)]
  ELSE IF \A n \in DOMAIN arg : arg[n] \in DigitLex THEN [k |-> "number", v |-> arg]
  ELSE [k |-> "string", v |-> arg]

\* C22: the marker {a|m:arg:...} becomes the call of m on .a with one
\* argument for each argument token, in order: the text of a backquoted
\* literal (colons, bars and closing braces included) as one string, a
\* number as a number, any other token as a string.
C22_Tokenization ==
  (fn = "TransformTemplate" /\ dpc = "done" /\ iter = 0) =>
    \A args \in SeqsUpTo(ArgLib, MaxArgs) :
      body0 = ArgMarker(args) =>
        /\ CallArgs(ret).ok
        /\ CallArgs(ret).args = [n \in DOMAIN args |-> Meant(args[n])]

\* the bars of t that stand outside double quotes, from position i on
RECURSIVE Stages(_, _, _)
Stages(t, i, quoted) ==
  IF i > Len(t) THEN 0
  ELSE IF t[i] = "\"" THEN Stages(t, i + 1, ~quoted)
  ELSE (IF t[i] = "|" /\ ~quoted THEN 1 ELSE 0) + Stages(t, i + 1, quoted)

\* C23: the marker {a|m|s:x} becomes a call with two stages after the field,
\* m and s, and s is not an argument of m.
C23_ChainedModifiers ==
  (fn = "TransformTemplate" /\ dpc = "done" /\ iter = 0
   /\ body0 = <<"{", "a", "|", "m", "|", "s", ":", "x", "}">>) =>
    /\ Stages(ret, 1, FALSE) = 2
    /\ IndexSeq(ret, <<"\"", "s", "\"">>, 1) = 0

\* C24: a body of text and markers of the evaluator is returned as it is,
\* and TransformTemplate applied to a result of its own returns that result.
C24_NativeUnchanged ==
  fn = "TransformTemplate" =>
    /\ (dpc = "done" /\ iter = 0
        /\ body0 \in {Join(ps) : ps \in SeqsUpTo(NativeLib, MaxPieces)}) => ret = body0
    /\ iter = 1 => ret = body

\* the name of a field marker: what stands between "{" and the first bar or
\* the closing brace
NameOf(marker) == SubSeq(marker, 2, FindIn(marker, 1, {"|", "}"}) - 1)

\* C26: a field marker is rewritten to the access of its field, whatever
\* letters its name begins with.
C26_FieldNamesRewritten ==
  (fn = "TransformTemplate" /\ dpc = "done" /\ iter = 0) =>
    \A n \in DOMAIN FieldLib :
      body0 = FieldLib[n] =>
        SubSeq(ret, 1, 2 + Len(NameOf(FieldLib[n]))) = <<"{", ".">> \o NameOf(FieldLib[n])

\* ------------------------------------------------------------------------
\* Properties of ResolveTables on several regions
\* ------------------------------------------------------------------------
\* the number of lexemes c in b
CountLex(b, c) == Cardinality({n \in DOMAIN b : b[n] = c})

\* C25: of a body made of regions that hold a table with a row, the datasets
\* being lists, ResolveTables returns a body without marker, with as many
\* tables as there were regions, none of them the template any more.
C25_EveryRegionRendered ==
  (fn = "ResolveTables" /\ dpc = "done" /\ ~Unusable(data)
   /\ body0 \in {Join(ps) : ps \in SeqsUpTo(<<Region(CellTable), RegionZ>>, MaxPieces)}) =>
    /\ CountLex(ret, openPrefix) = 0
    /\ CountLex(ret, closeTag) = 0
    /\ CountLex(ret, TableOpeningTag) = CountLex(body0, TableOpeningTag)
    /\ IndexSeq(ret, <<"{", "a", "}">>, 1) = 0

\* ------------------------------------------------------------------------
\* Properties of the plain markers of a Named row
\* ------------------------------------------------------------------------
\* C28: in the row of a Map item bound to the Named Form {a}{b|m}{x}, when a
\* is a field of the item, the marker {a} is the string form of the value of
\* a as it is, whatever lexemes the value holds, and the rest of the row is
\* what the markers {b|m} and {x} become for the item.
C28_ValueInsertedVerbatim ==
  pc = "done" =>
    \A n \in DOMAIN nitems :
      (nitems[n].kind = "map" /\ assigned[n] >= 1
         /\ templates[assigned[n]].xml = AsRow(RowABX)
         /\ "a" \in DOMAIN nitems[n].mapVal) =>
        RowOut(n) = AsRow(Sprint(nitems[n].mapVal["a"])
                          \o PipedMarker("b", <<"m">>, n) \o PlainMarker("x", n))

\* ------------------------------------------------------------------------
\* Properties of the choice of a Form
\* ------------------------------------------------------------------------
\* the names of Form t that are fields of the Map item it
Covered(it, t) == {k \in DOMAIN t.meta.names : t.meta.names[k] \in DOMAIN it.mapVal}

\* the distance between the placeholders of Form t and the values of item it
Distance(it, t) == Abs(t.meta.percentSeen - Len(it.sliceVal))

\* Form t has a positive score for item it
Scores(it, t) ==
  \/ it.kind = "map" /\ t.isNamed /\ Covered(it, t) # {}
  \/ it.kind = "slice" /\ t.isPos

\* Form t has a better score for item it than Form u, both scoring
Beats(it, t, u) ==
  IF it.kind = "map" THEN Cardinality(Covered(it, t)) > Cardinality(Covered(it, u))
  ELSE \/ Distance(it, t) = 0 /\ Distance(it, u) # 0
       \/ Distance(it, u) # 0 /\ Distance(it, t) < Distance(it, u)

\* the Forms with the best positive score for item it
BestForms(it) ==
  {i \in DOMAIN templates :
     /\ Scores(it, templates[i])
     /\ \A j \in DOMAIN templates :
          Scores(it, templates[j]) => ~Beats(it, templates[j], templates[i])}

\* the first of them in document order
FirstBest(it) == CHOOSE i \in BestForms(it) : \A j \in BestForms(it) : i <= j

\* item n is bound by its own score: it has no group, or it is the first item
\* of its group for which a Form scores
BoundByScore(n) ==
  /\ assigned[n] >= 1
  /\ BestForms(nitems[n]) # {}
  /\ \A q \in 1..(n - 1) :
       (nitems[n].groupKey # "" /\ nitems[q].groupKey = nitems[n].groupKey) =>
         BestForms(nitems[q]) = {}

\* C29: an item bound by its own score is bound to the first Form in document
\* order among those with the best positive score, and the binding of its
\* group is that Form: the table and the items determine the binding.
C29_FirstBestForm ==
  \A n \in DOMAIN assigned :
    BoundByScore(n) =>
      /\ assigned[n] = FirstBest(nitems[n])
      /\ nitems[n].groupKey # "" =>
           /\ nitems[n].groupKey \in DOMAIN binding
           /\ binding[nitems[n].groupKey] = FirstBest(nitems[n])

\* C29 witness: a rendered table in which an item had two Forms with the best
\* score, in rows that differ, and is bound to the first of the two
C29_Witness ==
  /\ pc = "done"
  /\ \E n \in DOMAIN assigned :
       /\ BoundByScore(n)
       /\ \E i \in BestForms(nitems[n]) : \E j \in BestForms(nitems[n]) :
            i < j /\ templates[i].xml # templates[j].xml /\ assigned[n] = i

\* ------------------------------------------------------------------------
\* Properties of the media pool
\* ------------------------------------------------------------------------
\* C30: the media files of the archive written last for a document are among
\* the media files added by the modifiers of that document.
C30_MediaIsolation ==
  \A d \in Docs :
    archive[d].by # "none" => MediaOf(archive[d].entries) \subseteq DOMAIN localMedia[d]

====
